---- MODULE Spec2Model ----
(***************************************************************************)
(* Model of the dual-format Solidity AST ingestion layer of slither:       *)
(*   slither/solc_parsing/types/compact_json.py  (compact_* definitions)   *)
(*   slither/solc_parsing/types/legacy_json.py   (legacy_* definitions)    *)
(* A raw JSON document is a value built from records (JSON objects, one    *)
(* field per key), None (JSON null) and PyList (JSON arrays).  A call of   *)
(* a Python function is an operator that yields either Ok(value) or        *)
(* Raise(exception); Bind and Then sequence calls the way Python           *)
(* sequences statements: the first exception ends the function.            *)
(***************************************************************************)
EXTENDS Integers, Sequences, FiniteSets, TLC

VARIABLES fmt, raw, pc, out, seen

vars == <<fmt, raw, pc, out, seen>>

(***************************************************************************)
(* Python values and exceptions                                            *)
(***************************************************************************)
None == [py |-> "None"]

PyList(s) == [py |-> "list", items |-> s]

PyStr(s) == [py |-> "str", str |-> s]

IsNone(v) == v = None

IsList(v) == "py" \in DOMAIN v /\ v.py = "list"

IsDict(v) == "py" \notin DOMAIN v

\* bool(v) of a JSON value: None and [] are falsy, a dict with keys and a
\* non-empty list are truthy; "" is the only falsy string.
Truthy(v) ==
  IF IsDict(v) THEN TRUE
  ELSE IF v.py = "None" THEN FALSE
  ELSE IF v.py = "list" THEN Len(v.items) > 0
  ELSE v.str # ""

\* The outcome of a call: a value or an exception, with the number of parse()
\* calls entered while it ran and the deepest nesting of parse() frames.
Ok(v) == [ok |-> TRUE, val |-> v, calls |-> 0, depth |-> 0]

Raise(e) == [ok |-> FALSE, exc |-> e, calls |-> 0, depth |-> 0]

Max(a, b) == IF a >= b THEN a ELSE b

\* n ran after m: the calls add up, the depth is the deeper of the two.
After(m, n) == [n EXCEPT !.calls = @ + m.calls, !.depth = Max(@, m.depth)]

\* m was the body of one parse() call.
Entered(m) == [m EXCEPT !.calls = @ + 1, !.depth = @ + 1]

KeyError(k) == [type |-> "KeyError", key |-> k]

TypeError == [type |-> "TypeError"]

IndexError == [type |-> "IndexError"]

AssertionError == [type |-> "AssertionError"]

\* x = m; rest(x): the statement after m runs only when m did not raise.
Bind(m, K(_)) == IF m.ok THEN After(m, K(m.val)) ELSE m

Then(m, n) == IF m.ok THEN After(m, n) ELSE m

\* d[k] on a dict; subscripting None, a list or a str with a str key is a TypeError.
GetItem(d, k) ==
  IF ~IsDict(d) THEN Raise(TypeError)
  ELSE IF k \in DOMAIN d THEN Ok(d[k])
  ELSE Raise(KeyError(k))

\* d.get(k, default) on a dict.
Get(d, k, default) == IF k \in DOMAIN d THEN d[k] ELSE default

\* l[i] on a list, i counted from 0; i = -1 is the last element.
Index(l, i) ==
  IF ~IsList(l) THEN Raise(TypeError)
  ELSE IF i >= 0 /\ i < Len(l.items) THEN Ok(l.items[i + 1])
  ELSE IF i = -1 /\ Len(l.items) > 0 THEN Ok(l.items[Len(l.items)])
  ELSE Raise(IndexError)

\* l[a:] and l[a:-1] on a list: a slice never raises on a list.
Slice(l, a, dropLast) ==
  IF ~IsList(l) THEN Raise(TypeError)
  ELSE LET n == IF dropLast THEN Len(l.items) - 1 ELSE Len(l.items)
       IN Ok(IF n <= a THEN <<>> ELSE SubSeq(l.items, a + 1, n))

\* len(l)
PyLen(l) == IF IsList(l) THEN Ok(Len(l.items)) ELSE Raise(TypeError)

\* the sequence a for loop runs over; iterating None is a TypeError.
Iter(l) == IF IsList(l) THEN Ok(l.items) ELSE Raise(TypeError)

\* assert cond
Require(cond) == IF cond THEN Ok(None) ELSE Raise(AssertionError)

\* isinstance(v, C) for a class C given as the set of its concrete classes.
IsInstance(v, C) == "class" \in DOMAIN v /\ v.class \in C

\* raw.keys()
Keys(d) == DOMAIN d

(***************************************************************************)
(* Node model: the capability groups of slither/solc_parsing/types/types.py *)
(***************************************************************************)
Statement ==
  {"Block", "IfStatement", "WhileStatement", "ForStatement", "TryStatement",
   "Return", "Break", "Continue", "Throw", "EmitStatement", "ExpressionStatement",
   "VariableDeclarationStatement", "PlaceholderStatement", "InlineAssembly"}

Expression ==
  {"Literal", "Identifier", "Assignment", "BinaryOperation", "UnaryOperation",
   "Conditional", "TupleExpression", "FunctionCall", "FunctionCallOptions",
   "NewExpression", "MemberAccess", "IndexAccess", "IndexRangeAccess",
   "ElementaryTypeNameExpression"}

Declaration ==
  {"SourceUnit", "ContractDefinition", "StructDefinition", "EnumDefinition",
   "EnumValue", "FunctionDefinition", "ModifierDefinition", "EventDefinition",
   "VariableDeclaration"}

TypeName ==
  {"ElementaryTypeName", "UserDefinedTypeName", "FunctionTypeName", "Mapping",
   "ArrayTypeName"}

ASTNode ==
  Statement \cup Expression \cup Declaration \cup TypeName \cup
  {"ParameterList", "InheritanceSpecifier", "UsingForDirective", "ModifierInvocation",
   "PragmaDirective", "ImportDirective", "TryCatchClause"}

\* ParsingError(*args): the structured error of slither.solc_parsing.exceptions.
ParsingError(args) == [type |-> "ParsingError"] @@ args

RECURSIVE compact_parse(_)
RECURSIVE compact_parse_each(_, _, _)
RECURSIVE legacy_parse(_)
RECURSIVE legacy_parse_each(_, _, _)
RECURSIVE legacy_child_names(_)

(***************************************************************************)
(* compact_json.py                                                         *)
(***************************************************************************)
compact_extract_base_props(r) ==
  Bind(GetItem(r, "src"), LAMBDA src :
  Bind(GetItem(r, "id"), LAMBDA id :
  Ok([src |-> src, id |-> id])))

compact_extract_expr_props(r) ==
  Bind(compact_extract_base_props(r), LAMBDA base :
  Bind(GetItem(r, "typeDescriptions"), LAMBDA td :
  Bind(GetItem(td, "typeString"), LAMBDA ts :
  Ok(base @@ [type_str |-> ts,
              constant |-> Get(r, "isConstant", FALSE),
              pure |-> Get(r, "isPure", FALSE)]))))

compact_extract_decl_props(r) ==
  Bind(compact_extract_base_props(r), LAMBDA base :
  Bind(GetItem(r, "name"), LAMBDA name :
  Ok(base @@ [name |-> name,
              canonical_name |-> Get(r, "canonicalName", PyStr("")),
              visibility |-> Get(r, "visibility", None)])))

compact_extract_call_props(r) ==
  Bind(Bind(GetItem(r, "parameters"), compact_parse), LAMBDA params :
  Bind(IF "returnParameters" \in DOMAIN r
       THEN compact_parse(r.returnParameters) ELSE Ok(None), LAMBDA rets :
  Bind(compact_extract_decl_props(r), LAMBDA decl :
  Ok(decl @@ [params |-> params, rets |-> rets]))))

\* for child in seq: [if child:] p = parse(child); assert isinstance(p, C);
\* list.append(p) [else: list.append(None)]
\* A loop that recovers locally: a child that fails is dropped and the loop
\* goes on with the next one.
compact_parse_each_lenient(seq, C, nullable) ==
  IF Len(seq) = 0 THEN Ok(<<>>)
  ELSE LET head == IF nullable /\ ~Truthy(Head(seq)) THEN Ok(None)
                   ELSE Bind(compact_parse(Head(seq)), LAMBDA p :
                        Then(Require(IsInstance(p, C)), Ok(p)))
       IN IF head.ok
          THEN Bind(head, LAMBDA p :
               Bind(compact_parse_each(Tail(seq), C, nullable), LAMBDA rest :
               Ok(<<p>> \o rest)))
          ELSE After(head, compact_parse_each(Tail(seq), C, nullable))

compact_parse_each(seq, C, nullable) ==
  IF Len(seq) = 0 THEN Ok(<<>>)
  ELSE Bind(IF nullable /\ ~Truthy(Head(seq)) THEN Ok(None)
            ELSE Bind(compact_parse(Head(seq)), LAMBDA p :
                 Then(Require(IsInstance(p, C)), Ok(p))), LAMBDA p :
       Bind(compact_parse_each(Tail(seq), C, nullable), LAMBDA rest :
       Ok(<<p>> \o rest)))

compact_parse_source_unit(r) ==
  Bind(GetItem(r, "nodes"), LAMBDA nodes :
  Bind(Iter(nodes), LAMBDA seq :
  Bind(compact_parse_each(seq, ASTNode, FALSE), LAMBDA nodes_parsed :
  Bind(compact_extract_base_props(r), LAMBDA base :
  Ok(base @@ [class |-> "SourceUnit", nodes |-> PyList(nodes_parsed)])))))

compact_parse_pragma_directive(r) ==
  Bind(GetItem(r, "literals"), LAMBDA literals :
  Bind(compact_extract_base_props(r), LAMBDA base :
  Ok(base @@ [class |-> "PragmaDirective", literals |-> literals])))

compact_parse_import_directive(r) ==
  Bind(GetItem(r, "absolutePath"), LAMBDA path :
  Bind(compact_extract_base_props(r), LAMBDA base :
  Ok(base @@ [class |-> "ImportDirective", path |-> path])))

compact_parse_contract_definition(r) ==
  Bind(GetItem(r, "nodes"), LAMBDA nodes :
  Bind(Iter(nodes), LAMBDA seq :
  Bind(compact_parse_each(seq, ASTNode, FALSE), LAMBDA nodes_parsed :
  Bind(GetItem(r, "contractKind"), LAMBDA kind :
  Bind(GetItem(r, "linearizedBaseContracts"), LAMBDA linearized :
  Bind(compact_extract_decl_props(r), LAMBDA decl :
  Ok(decl @@ [class |-> "ContractDefinition", kind |-> kind,
              linearized |-> linearized, nodes |-> PyList(nodes_parsed)])))))))

compact_parse_inheritance_specifier(r) ==
  Bind(Bind(GetItem(r, "baseName"), compact_parse), LAMBDA basename_parsed :
  Then(Require(IsInstance(basename_parsed, {"UserDefinedTypeName"})),
  Bind(GetItem(r, "arguments"), LAMBDA arguments :
  Bind(IF Truthy(arguments)
       THEN Bind(Iter(arguments), LAMBDA seq :
            Bind(compact_parse_each(seq, Expression, FALSE), LAMBDA l : Ok(PyList(l))))
       ELSE Ok(None), LAMBDA args_parsed :
  Bind(compact_extract_base_props(r), LAMBDA base :
  Ok(base @@ [class |-> "InheritanceSpecifier", basename |-> basename_parsed,
              args |-> args_parsed]))))))

compact_parse_using_for_directive(r) ==
  Bind(Bind(GetItem(r, "libraryName"), compact_parse), LAMBDA library_name_parsed :
  Then(Require(IsInstance(library_name_parsed, {"UserDefinedTypeName"})),
  Bind(Bind(GetItem(r, "typeName"), compact_parse), LAMBDA typename_parsed :
  Then(Require(IsInstance(typename_parsed, TypeName)),
  Bind(compact_extract_base_props(r), LAMBDA base :
  Ok(base @@ [class |-> "UsingForDirective", library |-> library_name_parsed,
              typename |-> typename_parsed]))))))

\* members_parsed is never appended to: every member is parsed and checked,
\* and the node is built from the empty list.
compact_parse_struct_definition(r) ==
  Bind(GetItem(r, "members"), LAMBDA members :
  Bind(Iter(members), LAMBDA seq :
  Bind(compact_parse_each(seq, {"VariableDeclaration"}, FALSE), LAMBDA discarded :
  Bind(compact_extract_decl_props(r), LAMBDA decl :
  Ok(decl @@ [class |-> "StructDefinition", members |-> PyList(<<>>)])))))

compact_parse_enum_definition(r) ==
  Bind(GetItem(r, "members"), LAMBDA members :
  Bind(Iter(members), LAMBDA seq :
  Bind(compact_parse_each(seq, {"EnumValue"}, FALSE), LAMBDA discarded :
  Bind(compact_extract_decl_props(r), LAMBDA decl :
  Ok(decl @@ [class |-> "EnumDefinition", members |-> PyList(<<>>)])))))

compact_parse_enum_value(r) ==
  Bind(compact_extract_decl_props(r), LAMBDA decl :
  Ok(decl @@ [class |-> "EnumValue"]))

compact_parse_parameter_list(r) ==
  Bind(GetItem(r, "parameters"), LAMBDA parameters :
  Bind(Iter(parameters), LAMBDA seq :
  Bind(compact_parse_each(seq, {"VariableDeclaration"}, FALSE), LAMBDA parameters_parsed :
  Bind(compact_extract_base_props(r), LAMBDA base :
  Ok(base @@ [class |-> "ParameterList", parameters |-> PyList(parameters_parsed)])))))

compact_parse_function_definition(r) ==
  Bind(Bind(GetItem(r, "body"), compact_parse), LAMBDA body_parsed :
  Then(Require(IsInstance(body_parsed, {"Block"})),
  Bind(GetItem(r, "modifiers"), LAMBDA modifiers :
  Bind(Iter(modifiers), LAMBDA seq :
  Bind(compact_parse_each(seq, {"ModifierInvocation"}, FALSE), LAMBDA modifiers_parsed :
  Bind(GetItem(r, "stateMutability"), LAMBDA mutability :
  Bind(GetItem(r, "kind"), LAMBDA kind :
  Bind(compact_extract_call_props(r), LAMBDA call :
  Ok(call @@ [class |-> "FunctionDefinition", mutability |-> mutability, kind |-> kind,
              modifiers |-> PyList(modifiers_parsed), body |-> body_parsed])))))))))

compact_parse_variable_declaration(r) ==
  Bind(Bind(GetItem(r, "typeName"), compact_parse), LAMBDA type_parsed :
  Then(Require(IsInstance(type_parsed, TypeName)),
  Bind(GetItem(r, "value"), LAMBDA value :
  Bind(IF Truthy(value)
       THEN Bind(compact_parse(value), LAMBDA v :
            Then(Require(IsInstance(v, Expression)), Ok(v)))
       ELSE Ok(None), LAMBDA value_parsed :
  Bind(GetItem(r, "typeDescriptions"), LAMBDA td :
  Bind(GetItem(td, "typeString"), LAMBDA ts :
  Bind(GetItem(r, "constant"), LAMBDA constant :
  Bind(compact_extract_decl_props(r), LAMBDA decl :
  Ok(decl @@ [class |-> "VariableDeclaration", typename |-> type_parsed,
              value |-> value_parsed, type_str |-> ts, constant |-> constant])))))))))

compact_parse_modifier_definition(r) ==
  Bind(Bind(GetItem(r, "body"), compact_parse), LAMBDA body_parsed :
  Then(Require(IsInstance(body_parsed, {"Block"})),
  Bind(compact_extract_call_props(r), LAMBDA call :
  Ok(call @@ [class |-> "ModifierDefinition", body |-> body_parsed]))))

compact_parse_modifier_invocation(r) ==
  Bind(GetItem(r, "arguments"), LAMBDA arguments :
  Bind(IF Truthy(arguments)
       THEN Bind(Iter(arguments), LAMBDA seq :
            Bind(compact_parse_each(seq, Expression, FALSE), LAMBDA l : Ok(PyList(l))))
       ELSE Ok(None), LAMBDA arguments_parsed :
  Bind(Bind(GetItem(r, "modifierName"), compact_parse), LAMBDA name_parsed :
  Then(Require(IsInstance(name_parsed, {"Identifier"})),
  Bind(compact_extract_base_props(r), LAMBDA base :
  Ok(base @@ [class |-> "ModifierInvocation", modifier |-> name_parsed,
              args |-> arguments_parsed]))))))

compact_parse_event_definition(r) ==
  Bind(GetItem(r, "anonymous"), LAMBDA anonymous :
  Bind(compact_extract_call_props(r), LAMBDA call :
  Ok(call @@ [class |-> "EventDefinition", anonymous |-> anonymous])))

compact_parse_elementary_type_name(r) ==
  Bind(GetItem(r, "name"), LAMBDA name :
  Bind(compact_extract_base_props(r), LAMBDA base :
  Ok(base @@ [class |-> "ElementaryTypeName", name |-> name,
              mutability |-> Get(r, "stateMutability", None)])))

compact_parse_user_defined_type_name(r) ==
  Bind(GetItem(r, "name"), LAMBDA name :
  Bind(compact_extract_base_props(r), LAMBDA base :
  Ok(base @@ [class |-> "UserDefinedTypeName", name |-> name])))

compact_parse_function_type_name(r) ==
  Bind(Bind(GetItem(r, "parameterTypes"), compact_parse), LAMBDA params :
  Then(Require(IsInstance(params, {"ParameterList"})),
  Bind(Bind(GetItem(r, "returnParameterTypes"), compact_parse), LAMBDA rets :
  Then(Require(IsInstance(rets, {"ParameterList"})),
  Bind(GetItem(r, "stateMutability"), LAMBDA mutability :
  Bind(GetItem(r, "visibility"), LAMBDA visibility :
  Bind(compact_extract_base_props(r), LAMBDA base :
  Ok(base @@ [class |-> "FunctionTypeName", params |-> params, rets |-> rets,
              mutability |-> mutability, visibility |-> visibility]))))))))

compact_parse_mapping(r) ==
  Bind(Bind(GetItem(r, "keyType"), compact_parse), LAMBDA key_parsed :
  Then(Require(IsInstance(key_parsed, TypeName)),
  Bind(Bind(GetItem(r, "valueType"), compact_parse), LAMBDA val_parsed :
  Then(Require(IsInstance(val_parsed, TypeName)),
  Bind(compact_extract_base_props(r), LAMBDA base :
  Ok(base @@ [class |-> "Mapping", key |-> key_parsed, val |-> val_parsed]))))))

compact_parse_array_type_name(r) ==
  Bind(Bind(GetItem(r, "baseType"), compact_parse), LAMBDA base_parsed :
  Then(Require(IsInstance(base_parsed, TypeName)),
  Bind(GetItem(r, "length"), LAMBDA length :
  Bind(IF Truthy(length)
       THEN Bind(compact_parse(length), LAMBDA l :
            Then(Require(IsInstance(l, Expression)), Ok(l)))
       ELSE Ok(None), LAMBDA len_parsed :
  Bind(compact_extract_base_props(r), LAMBDA base :
  Ok(base @@ [class |-> "ArrayTypeName", base |-> base_parsed, len |-> len_parsed]))))))

compact_parse_inline_assembly(r) ==
  Bind(GetItem(r, "AST"), LAMBDA ast :
  Bind(compact_extract_base_props(r), LAMBDA base :
  Ok(base @@ [class |-> "InlineAssembly", ast |-> ast])))

compact_parse_block(r) ==
  Bind(GetItem(r, "statements"), LAMBDA statements :
  Bind(Iter(statements), LAMBDA seq :
  Bind(compact_parse_each(seq, Statement, FALSE), LAMBDA parsed_statements :
  Bind(compact_extract_base_props(r), LAMBDA base :
  Ok(base @@ [class |-> "Block", statements |-> PyList(parsed_statements)])))))

compact_parse_placeholder_statement(r) ==
  Bind(compact_extract_base_props(r), LAMBDA base :
  Ok(base @@ [class |-> "PlaceholderStatement"]))

\* An if statement that parses its falseBody whenever the key is there, null
\* or not.
compact_parse_if_statement_key_only(r) ==
  Bind(Bind(GetItem(r, "condition"), compact_parse), LAMBDA condition_parsed :
  Bind(Bind(GetItem(r, "trueBody"), compact_parse), LAMBDA true_body_parsed :
  Bind(IF "falseBody" \in DOMAIN r
       THEN Bind(compact_parse(r.falseBody), LAMBDA f :
            Then(Require(IsInstance(f, Statement)), Ok(f)))
       ELSE Ok(None), LAMBDA false_body_parsed :
  Then(Require(IsInstance(condition_parsed, Expression)),
  Then(Require(IsInstance(true_body_parsed, Statement)),
  Bind(compact_extract_base_props(r), LAMBDA base :
  Ok(base @@ [class |-> "IfStatement", condition |-> condition_parsed,
              true_body |-> true_body_parsed, false_body |-> false_body_parsed])))))))

compact_parse_if_statement(r) ==
  Bind(Bind(GetItem(r, "condition"), compact_parse), LAMBDA condition_parsed :
  Bind(Bind(GetItem(r, "trueBody"), compact_parse), LAMBDA true_body_parsed :
  Bind(IF "falseBody" \in DOMAIN r /\ Truthy(r.falseBody)
       THEN Bind(compact_parse(r.falseBody), LAMBDA f :
            Then(Require(IsInstance(f, Statement)), Ok(f)))
       ELSE Ok(None), LAMBDA false_body_parsed :
  Then(Require(IsInstance(condition_parsed, Expression)),
  Then(Require(IsInstance(true_body_parsed, Statement)),
  Bind(compact_extract_base_props(r), LAMBDA base :
  Ok(base @@ [class |-> "IfStatement", condition |-> condition_parsed,
              true_body |-> true_body_parsed, false_body |-> false_body_parsed])))))))

compact_parse_try_catch_clause(r) ==
  Bind(GetItem(r, "errorName"), LAMBDA error_name :
  Bind(GetItem(r, "parameters"), LAMBDA parameters :
  Bind(IF Truthy(parameters)
       THEN Bind(compact_parse(parameters), LAMBDA p :
            Then(Require(IsInstance(p, {"ParameterList"})), Ok(p)))
       ELSE Ok(None), LAMBDA parameters_parsed :
  Bind(Bind(GetItem(r, "block"), compact_parse), LAMBDA block_parsed :
  Then(Require(IsInstance(block_parsed, {"Block"})),
  Bind(compact_extract_base_props(r), LAMBDA base :
  Ok(base @@ [class |-> "TryCatchClause", error_name |-> error_name,
              parameters |-> parameters_parsed, block |-> block_parsed])))))))

compact_parse_try_statement(r) ==
  Bind(Bind(GetItem(r, "externalCall"), compact_parse), LAMBDA external_call_parsed :
  Then(Require(IsInstance(external_call_parsed, Expression)),
  Bind(GetItem(r, "clauses"), LAMBDA clauses :
  Bind(Iter(clauses), LAMBDA seq :
  Bind(compact_parse_each(seq, {"TryCatchClause"}, FALSE), LAMBDA clauses_parsed :
  Bind(compact_extract_base_props(r), LAMBDA base :
  Ok(base @@ [class |-> "TryStatement", external_call |-> external_call_parsed,
              clauses |-> PyList(clauses_parsed)])))))))

compact_parse_while_statement_internal(r, is_do_while) ==
  Bind(Bind(GetItem(r, "condition"), compact_parse), LAMBDA condition_parsed :
  Then(Require(IsInstance(condition_parsed, Expression)),
  Bind(Bind(GetItem(r, "body"), compact_parse), LAMBDA body_parsed :
  Then(Require(IsInstance(body_parsed, Statement)),
  Bind(compact_extract_base_props(r), LAMBDA base :
  Ok(base @@ [class |-> "WhileStatement", condition |-> condition_parsed,
              body |-> body_parsed, is_do_while |-> is_do_while]))))))

compact_parse_while_statement(r) == compact_parse_while_statement_internal(r, FALSE)

compact_parse_do_while_statement(r) == compact_parse_while_statement_internal(r, TRUE)

compact_parse_for_statement(r) ==
  Bind(Bind(GetItem(r, "initializationExpression"), compact_parse), LAMBDA init_parsed :
  Then(Require(IsInstance(init_parsed, Statement)),
  Bind(Bind(GetItem(r, "condition"), compact_parse), LAMBDA cond_parsed :
  Then(Require(IsInstance(cond_parsed, Expression)),
  Bind(Bind(GetItem(r, "loopExpression"), compact_parse), LAMBDA loop_parsed :
  Then(Require(IsInstance(loop_parsed, {"ExpressionStatement"})),
  Bind(Bind(GetItem(r, "body"), compact_parse), LAMBDA body_parsed :
  Then(Require(IsInstance(body_parsed, Statement)),
  Bind(compact_extract_base_props(r), LAMBDA base :
  Ok(base @@ [class |-> "ForStatement", init |-> init_parsed, cond |-> cond_parsed,
              loop |-> loop_parsed, body |-> body_parsed]))))))))))

compact_parse_continue(r) ==
  Bind(compact_extract_base_props(r), LAMBDA base : Ok(base @@ [class |-> "Continue"]))

compact_parse_break(r) ==
  Bind(compact_extract_base_props(r), LAMBDA base : Ok(base @@ [class |-> "Break"]))

compact_parse_return(r) ==
  Bind(GetItem(r, "expression"), LAMBDA expression :
  Bind(IF Truthy(expression) THEN compact_parse(expression) ELSE Ok(None), LAMBDA expr_parsed :
  Bind(compact_extract_base_props(r), LAMBDA base :
  Ok(base @@ [class |-> "Return", expression |-> expr_parsed]))))

compact_parse_throw(r) ==
  Bind(compact_extract_base_props(r), LAMBDA base : Ok(base @@ [class |-> "Throw"]))

compact_parse_emit_statement(r) ==
  Bind(Bind(GetItem(r, "eventCall"), compact_parse), LAMBDA call_parsed :
  Then(Require(IsInstance(call_parsed, {"FunctionCall"})),
  Bind(compact_extract_base_props(r), LAMBDA base :
  Ok(base @@ [class |-> "EmitStatement", call |-> call_parsed]))))

compact_parse_variable_declaration_statement(r) ==
  Bind(GetItem(r, "declarations"), LAMBDA declarations :
  Bind(Iter(declarations), LAMBDA seq :
  Bind(compact_parse_each(seq, {"VariableDeclaration"}, TRUE), LAMBDA parsed_variables :
  Bind(GetItem(r, "initialValue"), LAMBDA initialValue :
  Bind(IF Truthy(initialValue)
       THEN Bind(compact_parse(initialValue), LAMBDA v :
            Then(Require(IsInstance(v, Expression)), Ok(v)))
       ELSE Ok(None), LAMBDA initial_value :
  Bind(compact_extract_base_props(r), LAMBDA base :
  Ok(base @@ [class |-> "VariableDeclarationStatement",
              variables |-> PyList(parsed_variables),
              initial_value |-> initial_value])))))))

\* An expression statement that parses its expression a second time to check it.
compact_parse_expression_statement_reparsing(r) ==
  Bind(Bind(GetItem(r, "expression"), compact_parse), LAMBDA expression_parsed :
  Bind(Bind(GetItem(r, "expression"), compact_parse), LAMBDA checked :
  Then(Require(IsInstance(checked, Expression)),
  Bind(compact_extract_base_props(r), LAMBDA base :
  Ok(base @@ [class |-> "ExpressionStatement", expression |-> expression_parsed])))))

compact_parse_expression_statement(r) ==
  Bind(Bind(GetItem(r, "expression"), compact_parse), LAMBDA expression_parsed :
  Then(Require(IsInstance(expression_parsed, Expression)),
  Bind(compact_extract_base_props(r), LAMBDA base :
  Ok(base @@ [class |-> "ExpressionStatement", expression |-> expression_parsed]))))

compact_parse_conditional(r) ==
  Bind(Bind(GetItem(r, "trueExpression"), compact_parse), LAMBDA true_expr_parsed :
  Then(Require(IsInstance(true_expr_parsed, Expression)),
  Bind(Bind(GetItem(r, "falseExpression"), compact_parse), LAMBDA false_expr_parsed :
  Then(Require(IsInstance(false_expr_parsed, Expression)),
  Bind(Bind(GetItem(r, "condition"), compact_parse), LAMBDA cond_parsed :
  Then(Require(IsInstance(cond_parsed, Expression)),
  Bind(compact_extract_expr_props(r), LAMBDA expr :
  Ok(expr @@ [class |-> "Conditional", condition |-> cond_parsed,
              true_expr |-> true_expr_parsed, false_expr |-> false_expr_parsed]))))))))

compact_parse_assignment(r) ==
  Bind(GetItem(r, "operator"), LAMBDA operator :
  Bind(Bind(GetItem(r, "leftHandSide"), compact_parse), LAMBDA left_parsed :
  Bind(Bind(GetItem(r, "rightHandSide"), compact_parse), LAMBDA right_parsed :
  Then(Require(IsInstance(left_parsed, Expression)),
  Then(Require(IsInstance(right_parsed, Expression)),
  Bind(compact_extract_expr_props(r), LAMBDA expr :
  Ok(expr @@ [class |-> "Assignment", left |-> left_parsed, operator |-> operator,
              right |-> right_parsed])))))))

compact_parse_tuple_expression(r) ==
  Bind(GetItem(r, "isInlineArray"), LAMBDA is_array :
  Bind(GetItem(r, "components"), LAMBDA components :
  Bind(Iter(components), LAMBDA seq :
  Bind(compact_parse_each(seq, ASTNode, TRUE), LAMBDA components_parsed :
  Bind(compact_extract_expr_props(r), LAMBDA expr :
  Ok(expr @@ [class |-> "TupleExpression", components |-> PyList(components_parsed),
              is_array |-> is_array]))))))

compact_parse_unary_operation(r) ==
  Bind(Bind(GetItem(r, "subExpression"), compact_parse), LAMBDA expression_parsed :
  Then(Require(IsInstance(expression_parsed, Expression)),
  Bind(GetItem(r, "operator"), LAMBDA operator :
  Bind(GetItem(r, "prefix"), LAMBDA prefix :
  Bind(compact_extract_expr_props(r), LAMBDA expr :
  Ok(expr @@ [class |-> "UnaryOperation", operator |-> operator,
              expression |-> expression_parsed, is_prefix |-> prefix]))))))

compact_parse_binary_operation(r) ==
  Bind(Bind(GetItem(r, "leftExpression"), compact_parse), LAMBDA left_parsed :
  Bind(GetItem(r, "operator"), LAMBDA operator :
  Bind(Bind(GetItem(r, "rightExpression"), compact_parse), LAMBDA right_parsed :
  Then(Require(IsInstance(left_parsed, Expression)),
  Then(Require(IsInstance(right_parsed, Expression)),
  Bind(compact_extract_expr_props(r), LAMBDA expr :
  Ok(expr @@ [class |-> "BinaryOperation", left |-> left_parsed, operator |-> operator,
              right |-> right_parsed])))))))

compact_parse_function_call(r) ==
  Bind(Bind(GetItem(r, "expression"), compact_parse), LAMBDA expression_parsed :
  Then(Require(IsInstance(expression_parsed, Expression)),
  Bind(GetItem(r, "names"), LAMBDA names :
  Bind(GetItem(r, "arguments"), LAMBDA arguments :
  Bind(Iter(arguments), LAMBDA seq :
  Bind(compact_parse_each(seq, Expression, FALSE), LAMBDA arguments_parsed :
  Bind(GetItem(r, "kind"), LAMBDA kind :
  Bind(compact_extract_expr_props(r), LAMBDA expr :
  Ok(expr @@ [class |-> "FunctionCall", kind |-> kind, expression |-> expression_parsed,
              names |-> names, arguments |-> PyList(arguments_parsed)])))))))))

compact_parse_function_call_options(r) ==
  Bind(Bind(GetItem(r, "expression"), compact_parse), LAMBDA expression_parsed :
  Then(Require(IsInstance(expression_parsed, Expression)),
  Bind(GetItem(r, "names"), LAMBDA names :
  Then(Require(IsList(names)),
  Bind(GetItem(r, "options"), LAMBDA options :
  Bind(Iter(options), LAMBDA seq :
  Bind(compact_parse_each(seq, Expression, FALSE), LAMBDA options_parsed :
  Bind(compact_extract_expr_props(r), LAMBDA expr :
  Ok(expr @@ [class |-> "FunctionCallOptions", expression |-> expression_parsed,
              names |-> names, options |-> PyList(options_parsed)])))))))))

compact_parse_new_expression(r) ==
  Bind(Bind(GetItem(r, "typeName"), compact_parse), LAMBDA typename_parsed :
  Then(Require(IsInstance(typename_parsed, TypeName)),
  Bind(compact_extract_expr_props(r), LAMBDA expr :
  Ok(expr @@ [class |-> "NewExpression", typename |-> typename_parsed]))))

compact_parse_member_access(r) ==
  Bind(Bind(GetItem(r, "expression"), compact_parse), LAMBDA expression_parsed :
  Then(Require(IsInstance(expression_parsed, Expression)),
  Bind(GetItem(r, "memberName"), LAMBDA member_name :
  Bind(compact_extract_expr_props(r), LAMBDA expr :
  Ok(expr @@ [class |-> "MemberAccess", expression |-> expression_parsed,
              member_name |-> member_name])))))

compact_parse_index_access(r) ==
  Bind(Bind(GetItem(r, "baseExpression"), compact_parse), LAMBDA base_parsed :
  Then(Require(IsInstance(base_parsed, Expression)),
  Bind(GetItem(r, "indexExpression"), LAMBDA indexExpression :
  Bind(IF Truthy(indexExpression)
       THEN Bind(compact_parse(indexExpression), LAMBDA i :
            Then(Require(IsInstance(i, Expression)), Ok(i)))
       ELSE Ok(None), LAMBDA index_parsed :
  Bind(compact_extract_expr_props(r), LAMBDA expr :
  Ok(expr @@ [class |-> "IndexAccess", base |-> base_parsed, index |-> index_parsed]))))))

compact_parse_index_range_access(r) ==
  Bind(Bind(GetItem(r, "baseExpression"), compact_parse), LAMBDA base_parsed :
  Then(Require(IsInstance(base_parsed, Expression)),
  Bind(Bind(GetItem(r, "startExpression"), compact_parse), LAMBDA start_parsed :
  Then(Require(IsInstance(start_parsed, Expression)),
  Bind(GetItem(r, "endExpression"), LAMBDA endExpression :
  Bind(IF Truthy(endExpression)
       THEN Bind(compact_parse(endExpression), LAMBDA e :
            Then(Require(IsInstance(e, Expression)), Ok(e)))
       ELSE Ok(None), LAMBDA end_parsed :
  Bind(compact_extract_expr_props(r), LAMBDA expr :
  Ok(expr @@ [class |-> "IndexRangeAccess", base |-> base_parsed, start |-> start_parsed,
              end |-> end_parsed]))))))))

compact_parse_identifier(r) ==
  Bind(GetItem(r, "name"), LAMBDA name :
  Bind(compact_extract_expr_props(r), LAMBDA expr :
  Ok(expr @@ [class |-> "Identifier", name |-> name])))

compact_parse_elementary_type_name_expression(r) ==
  Bind(Bind(GetItem(r, "typeName"), compact_parse), LAMBDA typename_parsed :
  Then(Require(IsInstance(typename_parsed, {"ElementaryTypeName"})),
  Bind(compact_extract_expr_props(r), LAMBDA expr :
  Ok(expr @@ [class |-> "ElementaryTypeNameExpression", typename |-> typename_parsed]))))

compact_parse_literal(r) ==
  Bind(GetItem(r, "kind"), LAMBDA kind :
  Bind(GetItem(r, "value"), LAMBDA value :
  Bind(GetItem(r, "hexValue"), LAMBDA hex_value :
  Bind(GetItem(r, "subdenomination"), LAMBDA subdenomination :
  Bind(compact_extract_expr_props(r), LAMBDA expr :
  Ok(expr @@ [class |-> "Literal", kind |-> kind, value |-> value, hex_value |-> hex_value,
              subdenomination |-> subdenomination]))))))

compact_parse_unsupported(r) ==
  Bind(GetItem(r, "nodeType"), LAMBDA tag :
  Raise(ParsingError([msg |-> "unsupported compact json node", tag |-> tag,
                      keys |-> Keys(r), raw |-> r])))

\* PARSERS.get(tag, parse_unsupported)(raw)
compact_PARSERS(tag, r) ==
  CASE tag = "SourceUnit" -> compact_parse_source_unit(r)
    [] tag = "PragmaDirective" -> compact_parse_pragma_directive(r)
    [] tag = "ImportDirective" -> compact_parse_import_directive(r)
    [] tag = "ContractDefinition" -> compact_parse_contract_definition(r)
    [] tag = "InheritanceSpecifier" -> compact_parse_inheritance_specifier(r)
    [] tag = "UsingForDirective" -> compact_parse_using_for_directive(r)
    [] tag = "StructDefinition" -> compact_parse_struct_definition(r)
    [] tag = "EnumDefinition" -> compact_parse_enum_definition(r)
    [] tag = "EnumValue" -> compact_parse_enum_value(r)
    [] tag = "ParameterList" -> compact_parse_parameter_list(r)
    [] tag = "FunctionDefinition" -> compact_parse_function_definition(r)
    [] tag = "VariableDeclaration" -> compact_parse_variable_declaration(r)
    [] tag = "ModifierDefinition" -> compact_parse_modifier_definition(r)
    [] tag = "ModifierInvocation" -> compact_parse_modifier_invocation(r)
    [] tag = "EventDefinition" -> compact_parse_event_definition(r)
    [] tag = "ElementaryTypeName" -> compact_parse_elementary_type_name(r)
    [] tag = "UserDefinedTypeName" -> compact_parse_user_defined_type_name(r)
    [] tag = "FunctionTypeName" -> compact_parse_function_type_name(r)
    [] tag = "Mapping" -> compact_parse_mapping(r)
    [] tag = "ArrayTypeName" -> compact_parse_array_type_name(r)
    [] tag = "InlineAssembly" -> compact_parse_inline_assembly(r)
    [] tag = "Block" -> compact_parse_block(r)
    [] tag = "PlaceholderStatement" -> compact_parse_placeholder_statement(r)
    [] tag = "IfStatement" -> compact_parse_if_statement(r)
    [] tag = "TryCatchClause" -> compact_parse_try_catch_clause(r)
    [] tag = "TryStatement" -> compact_parse_try_statement(r)
    [] tag = "WhileStatement" -> compact_parse_while_statement(r)
    [] tag = "DoWhileStatement" -> compact_parse_do_while_statement(r)
    [] tag = "ForStatement" -> compact_parse_for_statement(r)
    [] tag = "Continue" -> compact_parse_continue(r)
    [] tag = "Break" -> compact_parse_break(r)
    [] tag = "Return" -> compact_parse_return(r)
    [] tag = "Throw" -> compact_parse_throw(r)
    [] tag = "EmitStatement" -> compact_parse_emit_statement(r)
    [] tag = "VariableDeclarationStatement" -> compact_parse_variable_declaration_statement(r)
    [] tag = "ExpressionStatement" -> compact_parse_expression_statement(r)
    [] tag = "Conditional" -> compact_parse_conditional(r)
    [] tag = "Assignment" -> compact_parse_assignment(r)
    [] tag = "TupleExpression" -> compact_parse_tuple_expression(r)
    [] tag = "UnaryOperation" -> compact_parse_unary_operation(r)
    [] tag = "BinaryOperation" -> compact_parse_binary_operation(r)
    [] tag = "FunctionCall" -> compact_parse_function_call(r)
    [] tag = "FunctionCallOptions" -> compact_parse_function_call_options(r)
    [] tag = "NewExpression" -> compact_parse_new_expression(r)
    [] tag = "MemberAccess" -> compact_parse_member_access(r)
    [] tag = "IndexAccess" -> compact_parse_index_access(r)
    [] tag = "IndexRangeAccess" -> compact_parse_index_range_access(r)
    [] tag = "Identifier" -> compact_parse_identifier(r)
    [] tag = "ElementaryTypeNameExpression" -> compact_parse_elementary_type_name_expression(r)
    [] tag = "Literal" -> compact_parse_literal(r)
    [] OTHER -> compact_parse_unsupported(r)

\* except Exception as e: raise ParsingError(msg, raw['nodeType'], e, raw.keys(), raw).
\* The handler subscripts raw again: when that raises, the new exception is
\* what leaves parse.
compact_parse_except(r, e) ==
  Bind(GetItem(r, "nodeType"), LAMBDA tag :
  Raise(ParsingError([msg |-> "failed to parse compact json node", tag |-> tag,
                      cause |-> e, keys |-> Keys(r), raw |-> r])))

\* A parse whose handler wraps every exception, ParsingError included.
compact_parse_rewrap(r) ==
  LET try == Bind(GetItem(r, "nodeType"), LAMBDA tag : compact_PARSERS(tag, r))
  IN Entered(IF try.ok THEN try
             ELSE After(try, compact_parse_except(r, try.exc)))

\* A parse that keeps the first error it met and raises it on every later call.
compact_parse_raising_again(r) ==
  LET failed == {i \in DOMAIN seen : seen[i].fmt = "compact" /\ ~seen[i].out.ok}
      try == Bind(GetItem(r, "nodeType"), LAMBDA tag : compact_PARSERS(tag, r))
  IN IF failed # {} THEN seen[CHOOSE i \in failed : \A j \in failed : i <= j].out
     ELSE Entered(IF try.ok THEN try
                  ELSE IF try.exc.type = "ParsingError" THEN try
                  ELSE After(try, compact_parse_except(r, try.exc)))

compact_parse(r) ==
  LET try == Bind(GetItem(r, "nodeType"), LAMBDA tag : compact_PARSERS(tag, r))
  IN Entered(IF try.ok THEN try
             ELSE IF try.exc.type = "ParsingError" THEN try
             ELSE After(try, compact_parse_except(r, try.exc)))

(***************************************************************************)
(* legacy_json.py                                                          *)
(***************************************************************************)
\* raw['children'][i]
Child(r, i) == Bind(GetItem(r, "children"), LAMBDA c : Index(c, i))

\* raw['children'][a:] and raw['children'][a:-1]
Children(r, a, dropLast) == Bind(GetItem(r, "children"), LAMBDA c : Slice(c, a, dropLast))

\* raw['attributes'][k]
Attr(r, k) == Bind(GetItem(r, "attributes"), LAMBDA attrs : GetItem(attrs, k))

\* s.startswith(prefix)
StartsWith(s, prefix) == Len(s) >= Len(prefix) /\ SubSeq(s, 1, Len(prefix)) = prefix

legacy_extract_base_props(r) ==
  Bind(GetItem(r, "name"), LAMBDA name :
  IF name = "SourceUnit" THEN Ok([src |-> "", id |-> -1])
  ELSE Bind(GetItem(r, "src"), LAMBDA src :
       Bind(GetItem(r, "id"), LAMBDA id :
       Ok([src |-> src, id |-> id]))))

\* Declaration properties that leave an absent visibility null, as the compact
\* format does.
legacy_extract_decl_props_null_visibility(r) ==
  Bind(legacy_extract_base_props(r), LAMBDA base :
  Bind(Attr(r, "name"), LAMBDA name :
  Bind(GetItem(r, "attributes"), LAMBDA attrs :
  Ok(base @@ [name |-> name,
              canonical_name |-> Get(r, "canonicalName", PyStr("")),
              visibility |-> Get(attrs, "visibility", None)]))))

legacy_extract_decl_props(r) ==
  Bind(legacy_extract_base_props(r), LAMBDA base :
  Bind(Attr(r, "name"), LAMBDA name :
  Bind(GetItem(r, "attributes"), LAMBDA attrs :
  Ok(base @@ [name |-> name,
              canonical_name |-> Get(r, "canonicalName", PyStr("")),
              visibility |-> Get(attrs, "visibility", PyStr("public"))]))))

legacy_extract_expr_props(r) ==
  Bind(legacy_extract_base_props(r), LAMBDA base :
  Bind(Attr(r, "type"), LAMBDA type :
  Ok(base @@ [type_str |-> type,
              constant |-> Get(r, "isConstant", FALSE),
              pure |-> Get(r, "isPure", FALSE)])))

legacy_parse_each(seq, C, nullable) ==
  IF Len(seq) = 0 THEN Ok(<<>>)
  ELSE Bind(IF nullable /\ ~Truthy(Head(seq)) THEN Ok(None)
            ELSE Bind(legacy_parse(Head(seq)), LAMBDA p :
                 Then(Require(IsInstance(p, C)), Ok(p))), LAMBDA p :
       Bind(legacy_parse_each(Tail(seq), C, nullable), LAMBDA rest :
       Ok(<<p>> \o rest)))

\* The last child decides by its parsed class alone: a VariableDeclaration is
\* one more variable, anything else is taken as the initial value unchecked.
legacy_parse_variable_definition_statement(r) ==
  Bind(Children(r, 0, TRUE), LAMBDA init :
  Bind(legacy_parse_each(init, {"VariableDeclaration"}, FALSE), LAMBDA parsed_children :
  Bind(Bind(Child(r, -1), legacy_parse), LAMBDA last_child :
  Bind(legacy_extract_base_props(r), LAMBDA base :
  Ok(base @@ [class |-> "VariableDeclarationStatement",
              variables |-> PyList(IF IsInstance(last_child, {"VariableDeclaration"})
                                   THEN Append(parsed_children, last_child)
                                   ELSE parsed_children),
              initial_value |-> IF IsInstance(last_child, {"VariableDeclaration"})
                                THEN None ELSE last_child])))))

legacy_parse_expression_statement(r) ==
  Bind(Bind(Child(r, 0), legacy_parse), LAMBDA expression_parsed :
  Then(Require(IsInstance(expression_parsed, Expression)),
  Bind(legacy_extract_base_props(r), LAMBDA base :
  Ok(base @@ [class |-> "ExpressionStatement", expression |-> expression_parsed]))))

legacy_parse_conditional(r) ==
  Bind(Bind(Child(r, 0), legacy_parse), LAMBDA true_expr_parsed :
  Then(Require(IsInstance(true_expr_parsed, Expression)),
  Bind(Bind(Child(r, 1), legacy_parse), LAMBDA false_expr_parsed :
  Then(Require(IsInstance(false_expr_parsed, Expression)),
  Bind(Bind(Child(r, 2), legacy_parse), LAMBDA cond_parsed :
  Then(Require(IsInstance(cond_parsed, Expression)),
  Bind(legacy_extract_expr_props(r), LAMBDA expr :
  Ok(expr @@ [class |-> "Conditional", condition |-> cond_parsed,
              true_expr |-> true_expr_parsed, false_expr |-> false_expr_parsed]))))))))

legacy_parse_assignment(r) ==
  Bind(Bind(Child(r, 0), legacy_parse), LAMBDA left :
  Then(Require(IsInstance(left, Expression)),
  Bind(Bind(Child(r, 1), legacy_parse), LAMBDA right :
  Then(Require(IsInstance(right, Expression)),
  Bind(Attr(r, "operator"), LAMBDA operator :
  Bind(legacy_extract_expr_props(r), LAMBDA expr :
  Ok(expr @@ [class |-> "Assignment", left |-> left, operator |-> operator,
              right |-> right])))))))

legacy_parse_tuple_expression(r) ==
  Bind(GetItem(r, "children"), LAMBDA children :
  Bind(Iter(children), LAMBDA seq :
  Bind(legacy_parse_each(seq, Expression, TRUE), LAMBDA children_parsed :
  Bind(legacy_extract_expr_props(r), LAMBDA expr :
  Ok(expr @@ [class |-> "TupleExpression", components |-> PyList(children_parsed),
              is_array |-> FALSE])))))

legacy_parse_binary_operation(r) ==
  Bind(Bind(Child(r, 0), legacy_parse), LAMBDA left_parsed :
  Bind(Bind(Child(r, 1), legacy_parse), LAMBDA right_parsed :
  Then(Require(IsInstance(left_parsed, Expression)),
  Then(Require(IsInstance(right_parsed, Expression)),
  Bind(Attr(r, "operator"), LAMBDA operator :
  Bind(legacy_extract_expr_props(r), LAMBDA expr :
  Ok(expr @@ [class |-> "BinaryOperation", left |-> left_parsed, operator |-> operator,
              right |-> right_parsed])))))))

\* lines 155-168: the call kind, from the attributes alone.
\* A kind resolution that falls back on the type prefix whenever the explicit
\* struct-constructor flag is not true, present or not.
legacy_function_call_kind_prefix_always(attrs) ==
  IF "isStructConstructorCall" \in DOMAIN attrs /\ attrs.isStructConstructorCall
  THEN Ok("structConstructorCall")
  ELSE Bind(GetItem(attrs, "type_conversion"), LAMBDA tc :
       IF tc THEN Ok("typeConversion")
       ELSE Bind(GetItem(attrs, "type"), LAMBDA type :
            Ok(IF StartsWith(type, "struct ") THEN "structConstructorCall"
               ELSE "functionCall")))

legacy_function_call_kind(attrs) ==
  IF "isStructConstructorCall" \in DOMAIN attrs
  THEN IF attrs.isStructConstructorCall THEN Ok("structConstructorCall")
       ELSE Bind(GetItem(attrs, "type_conversion"), LAMBDA tc :
            Ok(IF tc THEN "typeConversion" ELSE "functionCall"))
  ELSE Bind(GetItem(attrs, "type_conversion"), LAMBDA tc :
       IF tc THEN Ok("typeConversion")
       ELSE Bind(GetItem(attrs, "type"), LAMBDA type :
            Ok(IF StartsWith(type, "struct ") THEN "structConstructorCall"
               ELSE "functionCall")))

legacy_parse_function_call(r) ==
  Bind(GetItem(r, "attributes"), LAMBDA attrs :
  Bind(legacy_function_call_kind(attrs), LAMBDA kind :
  Bind(Bind(Child(r, 0), legacy_parse), LAMBDA call_parsed :
  Then(Require(IsInstance(call_parsed, Expression)),
  Bind(Children(r, 1, FALSE), LAMBDA rest :
  Bind(legacy_parse_each(rest, Expression, FALSE), LAMBDA args_parsed :
  Bind(legacy_extract_expr_props(r), LAMBDA expr :
  Ok(expr @@ [class |-> "FunctionCall", kind |-> kind, expression |-> call_parsed,
              names |-> Get(attrs, "names", PyList(<<>>)),
              arguments |-> PyList(args_parsed)]))))))))

legacy_parse_function_call_options(r) ==
  Bind(Bind(Child(r, 0), legacy_parse), LAMBDA expression_parsed :
  Then(Require(IsInstance(expression_parsed, Expression)),
  Bind(Attr(r, "names"), LAMBDA names :
  Then(Require(IsList(names)),
  Bind(Children(r, 1, FALSE), LAMBDA rest :
  Bind(legacy_parse_each(rest, Expression, FALSE), LAMBDA options_parsed :
  Bind(legacy_extract_expr_props(r), LAMBDA expr :
  Ok(expr @@ [class |-> "FunctionCallOptions", expression |-> expression_parsed,
              names |-> names, options |-> PyList(options_parsed)]))))))))

legacy_parse_new_expression(r) ==
  Bind(Bind(Child(r, 0), legacy_parse), LAMBDA typename_parsed :
  Then(Require(IsInstance(typename_parsed, TypeName)),
  Bind(legacy_extract_expr_props(r), LAMBDA expr :
  Ok(expr @@ [class |-> "NewExpression", typename |-> typename_parsed]))))

legacy_parse_member_access(r) ==
  Bind(Bind(Child(r, 0), legacy_parse), LAMBDA expr_parsed :
  Then(Require(IsInstance(expr_parsed, Expression)),
  Bind(Attr(r, "member_name"), LAMBDA member_name :
  Bind(legacy_extract_expr_props(r), LAMBDA expr :
  Ok(expr @@ [class |-> "MemberAccess", expression |-> expr_parsed,
              member_name |-> member_name])))))

\* Throw(raw['src']): the source range is the only argument given.
legacy_parse_throw(r) ==
  Bind(GetItem(r, "src"), LAMBDA src : Ok([class |-> "Throw", src |-> src]))

legacy_parse_source_unit(r) ==
  Bind(GetItem(r, "children"), LAMBDA children :
  Bind(Iter(children), LAMBDA seq :
  Bind(legacy_parse_each(seq, ASTNode, FALSE), LAMBDA children_parsed :
  Bind(legacy_extract_base_props(r), LAMBDA base :
  Ok(base @@ [class |-> "SourceUnit", nodes |-> PyList(children_parsed)])))))

legacy_parse_pragma_directive(r) ==
  Bind(Attr(r, "literals"), LAMBDA literals :
  Bind(legacy_extract_base_props(r), LAMBDA base :
  Ok(base @@ [class |-> "PragmaDirective", literals |-> literals])))

\* lines 237-247: the contract kind, from the attributes alone.
\* A kind resolution that looks at fullyImplemented before isLibrary.
legacy_contract_kind_implemented_first(attrs) ==
  IF "contractKind" \in DOMAIN attrs THEN Ok(attrs.contractKind)
  ELSE Bind(GetItem(attrs, "fullyImplemented"), LAMBDA fullyImplemented :
       IF fullyImplemented THEN Ok("contract")
       ELSE Bind(GetItem(attrs, "isLibrary"), LAMBDA isLibrary :
            Ok(IF isLibrary THEN "library" ELSE "interface")))

legacy_contract_kind(attrs) ==
  IF "contractKind" \in DOMAIN attrs THEN Ok(attrs.contractKind)
  ELSE Bind(GetItem(attrs, "isLibrary"), LAMBDA isLibrary :
       IF isLibrary THEN Ok("library")
       ELSE Bind(GetItem(attrs, "fullyImplemented"), LAMBDA fullyImplemented :
            Ok(IF fullyImplemented THEN "contract" ELSE "interface")))

legacy_parse_contract_definition(r) ==
  Bind(GetItem(r, "attributes"), LAMBDA attrs :
  Bind(legacy_contract_kind(attrs), LAMBDA kind :
  Bind(GetItem(attrs, "linearizedBaseContracts"), LAMBDA linearized :
  Bind(IF "children" \in DOMAIN r
       THEN Bind(Iter(r.children), LAMBDA seq : legacy_parse_each(seq, ASTNode, FALSE))
       ELSE Ok(<<>>), LAMBDA nodes :
  Bind(legacy_extract_decl_props(r), LAMBDA decl :
  Ok(decl @@ [class |-> "ContractDefinition", kind |-> kind,
              linearized |-> linearized, nodes |-> PyList(nodes)]))))))

legacy_parse_inheritance_specifier(r) ==
  Bind(Bind(Child(r, 0), legacy_parse), LAMBDA basename_parsed :
  Then(Require(IsInstance(basename_parsed, {"UserDefinedTypeName"})),
  Bind(Bind(GetItem(r, "children"), PyLen), LAMBDA n :
  Bind(IF n > 1
       THEN Bind(Children(r, 1, FALSE), LAMBDA rest :
            Bind(legacy_parse_each(rest, Expression, FALSE), LAMBDA l : Ok(PyList(l))))
       ELSE Ok(None), LAMBDA args_parsed :
  Bind(legacy_extract_base_props(r), LAMBDA base :
  Ok(base @@ [class |-> "InheritanceSpecifier", basename |-> basename_parsed,
              args |-> args_parsed]))))))

legacy_parse_using_for_directive(r) ==
  Bind(Bind(Child(r, 0), legacy_parse), LAMBDA library :
  Then(Require(IsInstance(library, {"UserDefinedTypeName"})),
  Bind(Bind(GetItem(r, "children"), PyLen), LAMBDA n :
  Bind(IF n > 1
       THEN Bind(Bind(Child(r, 1), legacy_parse), LAMBDA t :
            Then(Require(IsInstance(t, TypeName)), Ok(t)))
       ELSE Ok(None), LAMBDA typename :
  Bind(legacy_extract_base_props(r), LAMBDA base :
  Ok(base @@ [class |-> "UsingForDirective", library |-> library,
              typename |-> typename]))))))

\* A struct definition whose canonical name defaults to the empty string, as
\* the shared declaration properties do.
legacy_parse_struct_definition_empty_name(r) ==
  Bind(GetItem(r, "attributes"), LAMBDA attrs :
  Bind(GetItem(r, "children"), LAMBDA children :
  Bind(Iter(children), LAMBDA seq :
  Bind(legacy_parse_each(seq, {"VariableDeclaration"}, FALSE), LAMBDA members_parsed :
  Bind(GetItem(attrs, "name"), LAMBDA name :
  Bind(legacy_extract_base_props(r), LAMBDA base :
  Ok(base @@ [class |-> "StructDefinition", members |-> PyList(members_parsed),
              name |-> name, canonical_name |-> Get(attrs, "canonicalName", PyStr("")),
              visibility |-> None])))))))

legacy_parse_struct_definition(r) ==
  Bind(GetItem(r, "attributes"), LAMBDA attrs :
  Bind(GetItem(r, "children"), LAMBDA children :
  Bind(Iter(children), LAMBDA seq :
  Bind(legacy_parse_each(seq, {"VariableDeclaration"}, FALSE), LAMBDA members_parsed :
  Bind(GetItem(attrs, "name"), LAMBDA name :
  Bind(legacy_extract_base_props(r), LAMBDA base :
  Ok(base @@ [class |-> "StructDefinition", members |-> PyList(members_parsed),
              name |-> name, canonical_name |-> Get(attrs, "canonicalName", None),
              visibility |-> None])))))))

legacy_parse_enum_definition(r) ==
  Bind(GetItem(r, "attributes"), LAMBDA attrs :
  Bind(GetItem(r, "children"), LAMBDA children :
  Bind(Iter(children), LAMBDA seq :
  Bind(legacy_parse_each(seq, {"EnumValue"}, FALSE), LAMBDA members_parsed :
  Bind(GetItem(attrs, "name"), LAMBDA name :
  Bind(legacy_extract_base_props(r), LAMBDA base :
  Ok(base @@ [class |-> "EnumDefinition", members |-> PyList(members_parsed),
              name |-> name, canonical_name |-> Get(attrs, "canonicalName", None),
              visibility |-> None])))))))

legacy_parse_enum_value(r) ==
  Bind(Attr(r, "name"), LAMBDA name :
  Bind(legacy_extract_base_props(r), LAMBDA base :
  Ok(base @@ [class |-> "EnumValue", name |-> name, canonical_name |-> None,
              visibility |-> None])))

\* lines 334-346: the mutability, from the attributes alone.
\* A mutability resolution whose last resort is "nonpayable".
legacy_function_mutability_nonpayable(attrs) ==
  IF "stateMutability" \in DOMAIN attrs THEN attrs.stateMutability
  ELSE IF "payable" \in DOMAIN attrs /\ attrs.payable THEN "payable"
  ELSE "nonpayable"

legacy_function_mutability(attrs) ==
  IF "stateMutability" \in DOMAIN attrs THEN attrs.stateMutability
  ELSE IF "payable" \in DOMAIN attrs
       THEN (IF attrs.payable THEN "payable" ELSE "nonpayable")
       ELSE "payable"

\* lines 348-356: the function kind, from the attributes alone.
\* A kind resolution in which a present isConstructor decides alone: false
\* gives "function" without looking at the name.
legacy_function_kind_flag_decides(attrs) ==
  IF "kind" \in DOMAIN attrs THEN Ok(attrs.kind)
  ELSE IF "isConstructor" \in DOMAIN attrs
       THEN Ok(IF attrs.isConstructor THEN "constructor" ELSE "function")
  ELSE Bind(GetItem(attrs, "name"), LAMBDA name :
       Ok(IF name = "" THEN "fallback" ELSE "function"))

legacy_function_kind(attrs) ==
  IF "kind" \in DOMAIN attrs THEN Ok(attrs.kind)
  ELSE IF "isConstructor" \in DOMAIN attrs /\ attrs.isConstructor THEN Ok("constructor")
  ELSE Bind(GetItem(attrs, "name"), LAMBDA name :
       Ok(IF name = "" THEN "fallback" ELSE "function"))

\* A function definition that takes a last child that is no Block as one more
\* modifier and yields a function without body.
legacy_parse_function_definition_bodyless(r) ==
  Bind(GetItem(r, "attributes"), LAMBDA attrs :
  Bind(legacy_function_kind(attrs), LAMBDA kind :
  Bind(Bind(GetItem(r, "children"), PyLen), LAMBDA n :
  Then(Require(n >= 3),
  Bind(Bind(Child(r, 0), legacy_parse), LAMBDA params :
  Then(Require(IsInstance(params, {"ParameterList"})),
  Bind(Bind(Child(r, 1), legacy_parse), LAMBDA rets :
  Then(Require(IsInstance(rets, {"ParameterList"})),
  Bind(Bind(Child(r, -1), legacy_parse), LAMBDA last :
  Bind(Children(r, 2, IsInstance(last, {"Block"})), LAMBDA middle :
  Bind(legacy_parse_each(middle, {"ModifierInvocation"}, FALSE), LAMBDA modifiers_parsed :
  Bind(legacy_extract_decl_props(r), LAMBDA decl :
  Ok(decl @@ [class |-> "FunctionDefinition",
              mutability |-> legacy_function_mutability(attrs), kind |-> kind,
              modifiers |-> PyList(modifiers_parsed),
              body |-> IF IsInstance(last, {"Block"}) THEN last ELSE None,
              params |-> params, rets |-> rets])))))))))))))

legacy_parse_function_definition(r) ==
  Bind(GetItem(r, "attributes"), LAMBDA attrs :
  Bind(legacy_function_kind(attrs), LAMBDA kind :
  Bind(Bind(GetItem(r, "children"), PyLen), LAMBDA n :
  Then(Require(n >= 3),
  Bind(Bind(Child(r, 0), legacy_parse), LAMBDA params :
  Then(Require(IsInstance(params, {"ParameterList"})),
  Bind(Bind(Child(r, 1), legacy_parse), LAMBDA rets :
  Then(Require(IsInstance(rets, {"ParameterList"})),
  Bind(Children(r, 2, TRUE), LAMBDA middle :
  Bind(legacy_parse_each(middle, {"ModifierInvocation"}, FALSE), LAMBDA modifiers_parsed :
  Bind(Bind(Child(r, -1), legacy_parse), LAMBDA body :
  Then(Require(IsInstance(body, {"Block"})),
  Bind(legacy_extract_decl_props(r), LAMBDA decl :
  Ok(decl @@ [class |-> "FunctionDefinition",
              mutability |-> legacy_function_mutability(attrs), kind |-> kind,
              modifiers |-> PyList(modifiers_parsed), body |-> body,
              params |-> params, rets |-> rets]))))))))))))))

\* A parameter list that compacts: null placeholders are left out.
legacy_parse_parameter_list_compacting(r) ==
  Bind(GetItem(r, "children"), LAMBDA children :
  Bind(Iter(children), LAMBDA seq :
  Bind(legacy_parse_each(SelectSeq(seq, Truthy), {"VariableDeclaration"}, FALSE),
       LAMBDA parameters_parsed :
  Bind(legacy_extract_base_props(r), LAMBDA base :
  Ok(base @@ [class |-> "ParameterList", parameters |-> PyList(parameters_parsed)])))))

legacy_parse_parameter_list(r) ==
  Bind(GetItem(r, "children"), LAMBDA children :
  Bind(Iter(children), LAMBDA seq :
  Bind(legacy_parse_each(seq, {"VariableDeclaration"}, TRUE), LAMBDA parameters_parsed :
  Bind(legacy_extract_base_props(r), LAMBDA base :
  Ok(base @@ [class |-> "ParameterList", parameters |-> PyList(parameters_parsed)])))))

legacy_parse_elementary_type_name(r) ==
  Bind(GetItem(r, "attributes"), LAMBDA attrs :
  Bind(IF "stateMutability" \in DOMAIN attrs THEN Ok(attrs.stateMutability)
       ELSE Bind(GetItem(attrs, "name"), LAMBDA name :
            Ok(IF name = "address" THEN "payable" ELSE None)), LAMBDA mutability :
  Bind(GetItem(attrs, "name"), LAMBDA name :
  Bind(legacy_extract_base_props(r), LAMBDA base :
  Ok(base @@ [class |-> "ElementaryTypeName", name |-> name,
              mutability |-> mutability])))))

legacy_parse_user_defined_type_name(r) ==
  Bind(Attr(r, "name"), LAMBDA name :
  Bind(legacy_extract_base_props(r), LAMBDA base :
  Ok(base @@ [class |-> "UserDefinedTypeName", name |-> name])))

legacy_parse_array_type_name(r) ==
  Bind(Bind(Child(r, 0), legacy_parse), LAMBDA base_parsed :
  Then(Require(IsInstance(base_parsed, TypeName)),
  Bind(Bind(GetItem(r, "children"), PyLen), LAMBDA n :
  Bind(IF n > 1
       THEN Bind(Bind(Child(r, 1), legacy_parse), LAMBDA l :
            Then(Require(IsInstance(l, Expression)), Ok(l)))
       ELSE Ok(None), LAMBDA len_parsed :
  Bind(legacy_extract_base_props(r), LAMBDA base :
  Ok(base @@ [class |-> "ArrayTypeName", base |-> base_parsed, len |-> len_parsed]))))))

legacy_parse_inline_assembly(r) ==
  Bind(Attr(r, "operations"), LAMBDA operations :
  Bind(legacy_extract_base_props(r), LAMBDA base :
  Ok(base @@ [class |-> "InlineAssembly", ast |-> operations])))

legacy_parse_block(r) ==
  Bind(GetItem(r, "children"), LAMBDA children :
  Bind(Iter(children), LAMBDA seq :
  Bind(legacy_parse_each(seq, Statement, FALSE), LAMBDA parsed_statements :
  Bind(legacy_extract_base_props(r), LAMBDA base :
  Ok(base @@ [class |-> "Block", statements |-> PyList(parsed_statements)])))))

legacy_parse_placeholder_statement(r) ==
  Bind(legacy_extract_base_props(r), LAMBDA base :
  Ok(base @@ [class |-> "PlaceholderStatement"]))

legacy_parse_return(r) ==
  Bind(Bind(GetItem(r, "children"), PyLen), LAMBDA n :
  Bind(IF n > 0
       THEN Bind(Bind(Child(r, 0), legacy_parse), LAMBDA e :
            Then(Require(IsInstance(e, Expression)), Ok(e)))
       ELSE Ok(None), LAMBDA expr_parsed :
  Bind(legacy_extract_base_props(r), LAMBDA base :
  Ok(base @@ [class |-> "Return", expression |-> expr_parsed]))))

legacy_parse_variable_declaration(r) ==
  Bind(GetItem(r, "attributes"), LAMBDA attrs :
  Bind(Bind(Child(r, 0), legacy_parse), LAMBDA typename :
  Then(Require(IsInstance(typename, TypeName)),
  Bind(Bind(GetItem(r, "children"), PyLen), LAMBDA n :
  Bind(IF n > 1
       THEN Bind(Bind(Child(r, 1), legacy_parse), LAMBDA v :
            Then(Require(IsInstance(v, Expression)), Ok(v)))
       ELSE Ok(None), LAMBDA value :
  Bind(GetItem(attrs, "type"), LAMBDA type :
  Bind(legacy_extract_decl_props(r), LAMBDA decl :
  Ok(decl @@ [class |-> "VariableDeclaration", typename |-> typename, value |-> value,
              type_str |-> type, constant |-> Get(attrs, "constant", FALSE)]))))))))

legacy_parse_modifier_definition(r) ==
  Bind(Bind(Child(r, 0), legacy_parse), LAMBDA params :
  Then(Require(IsInstance(params, {"ParameterList"})),
  Bind(Bind(Child(r, 1), legacy_parse), LAMBDA body :
  Then(Require(IsInstance(body, {"Block"})),
  Bind(Attr(r, "name"), LAMBDA name :
  Bind(legacy_extract_base_props(r), LAMBDA base :
  Ok(base @@ [class |-> "ModifierDefinition", body |-> body, params |-> params,
              rets |-> None, name |-> name, canonical_name |-> None,
              visibility |-> None])))))))

legacy_parse_modifier_invocation(r) ==
  Bind(Bind(Child(r, 0), legacy_parse), LAMBDA name :
  Then(Require(IsInstance(name, {"Identifier"})),
  Bind(Children(r, 1, FALSE), LAMBDA rest :
  Bind(legacy_parse_each(rest, Expression, FALSE), LAMBDA args_parsed :
  Bind(legacy_extract_base_props(r), LAMBDA base :
  Ok(base @@ [class |-> "ModifierInvocation", modifier |-> name,
              args |-> PyList(args_parsed)]))))))

legacy_parse_index_access(r) ==
  Bind(Bind(Child(r, 0), legacy_parse), LAMBDA base_parsed :
  Then(Require(IsInstance(base_parsed, Expression)),
  Bind(Bind(GetItem(r, "children"), PyLen), LAMBDA n :
  Bind(IF n > 1
       THEN Bind(Bind(Child(r, 1), legacy_parse), LAMBDA i :
            Then(Require(IsInstance(i, Expression)), Ok(i)))
       ELSE Ok(None), LAMBDA index_parsed :
  Bind(legacy_extract_expr_props(r), LAMBDA expr :
  Ok(expr @@ [class |-> "IndexAccess", base |-> base_parsed, index |-> index_parsed]))))))

\* An index range access whose start, like its end, is read only when the
\* child list is long enough.
legacy_parse_index_range_access_optional_start(r) ==
  Bind(Bind(Child(r, 0), legacy_parse), LAMBDA base :
  Then(Require(IsInstance(base, Expression)),
  Bind(Bind(GetItem(r, "children"), PyLen), LAMBDA n :
  Bind(IF n > 1
       THEN Bind(Bind(Child(r, 1), legacy_parse), LAMBDA s :
            Then(Require(IsInstance(s, Expression)), Ok(s)))
       ELSE Ok(None), LAMBDA start :
  Bind(IF n > 2
       THEN Bind(Bind(Child(r, 2), legacy_parse), LAMBDA e :
            Then(Require(IsInstance(e, Expression)), Ok(e)))
       ELSE Ok(None), LAMBDA end :
  Bind(legacy_extract_expr_props(r), LAMBDA expr :
  Ok(expr @@ [class |-> "IndexRangeAccess", base |-> base, start |-> start,
              end |-> end])))))))

legacy_parse_index_range_access(r) ==
  Bind(Bind(Child(r, 0), legacy_parse), LAMBDA base :
  Then(Require(IsInstance(base, Expression)),
  Bind(Bind(Child(r, 1), legacy_parse), LAMBDA start :
  Then(Require(IsInstance(start, Expression)),
  Bind(Bind(GetItem(r, "children"), PyLen), LAMBDA n :
  Bind(IF n > 2
       THEN Bind(Bind(Child(r, 2), legacy_parse), LAMBDA e :
            Then(Require(IsInstance(e, Expression)), Ok(e)))
       ELSE Ok(None), LAMBDA end :
  Bind(legacy_extract_expr_props(r), LAMBDA expr :
  Ok(expr @@ [class |-> "IndexRangeAccess", base |-> base, start |-> start,
              end |-> end]))))))))

legacy_parse_identifier(r) ==
  Bind(Attr(r, "value"), LAMBDA value :
  Bind(legacy_extract_expr_props(r), LAMBDA expr :
  Ok(expr @@ [class |-> "Identifier", name |-> value])))

legacy_parse_elementary_type_name_expression(r) ==
  Bind(Bind(Child(r, 0), legacy_parse), LAMBDA typename_parsed :
  Then(Require(IsInstance(typename_parsed, {"ElementaryTypeName"})),
  Bind(legacy_extract_expr_props(r), LAMBDA expr :
  Ok(expr @@ [class |-> "ElementaryTypeNameExpression", typename |-> typename_parsed]))))

\* A literal whose value is its hex value.
legacy_parse_literal_hex_as_value(r) ==
  Bind(GetItem(r, "attributes"), LAMBDA attrs :
  Bind(GetItem(attrs, "token"), LAMBDA token :
  Bind(GetItem(attrs, "hexvalue"), LAMBDA hexvalue :
  Bind(GetItem(attrs, "subdenomination"), LAMBDA subdenomination :
  Bind(legacy_extract_expr_props(r), LAMBDA expr :
  Ok(expr @@ [class |-> "Literal", kind |-> token, value |-> hexvalue,
              hex_value |-> hexvalue, subdenomination |-> subdenomination]))))))

legacy_parse_literal(r) ==
  Bind(GetItem(r, "attributes"), LAMBDA attrs :
  Bind(GetItem(attrs, "token"), LAMBDA token :
  Bind(GetItem(attrs, "value"), LAMBDA value :
  Bind(GetItem(attrs, "hexvalue"), LAMBDA hexvalue :
  Bind(GetItem(attrs, "subdenomination"), LAMBDA subdenomination :
  Bind(legacy_extract_expr_props(r), LAMBDA expr :
  Ok(expr @@ [class |-> "Literal", kind |-> token, value |-> value,
              hex_value |-> hexvalue, subdenomination |-> subdenomination])))))))

\* [node['name'] for node in raw['children']]
legacy_child_names(seq) ==
  IF Len(seq) = 0 THEN Ok(<<>>)
  ELSE Bind(GetItem(Head(seq), "name"), LAMBDA name :
       Bind(legacy_child_names(Tail(seq)), LAMBDA rest : Ok(<<name>> \o rest)))

legacy_parse_unsupported(r) ==
  Bind(GetItem(r, "name"), LAMBDA tag :
  Bind(IF "children" \in DOMAIN r
       THEN Bind(Iter(r.children), legacy_child_names)
       ELSE Ok(<<>>), LAMBDA names :
  Raise(ParsingError([msg |-> "unsupported legacy json node", tag |-> tag,
                      keys |-> Keys(r), children |-> names, raw |-> r]))))

\* PARSERS.get(tag, parse_unsupported)(raw)
legacy_PARSERS(tag, r) ==
  CASE tag = "SourceUnit" -> legacy_parse_source_unit(r)
    [] tag = "PragmaDirective" -> legacy_parse_pragma_directive(r)
    [] tag = "ContractDefinition" -> legacy_parse_contract_definition(r)
    [] tag = "InheritanceSpecifier" -> legacy_parse_inheritance_specifier(r)
    [] tag = "UsingForDirective" -> legacy_parse_using_for_directive(r)
    [] tag = "StructDefinition" -> legacy_parse_struct_definition(r)
    [] tag = "EnumDefinition" -> legacy_parse_enum_definition(r)
    [] tag = "EnumValue" -> legacy_parse_enum_value(r)
    [] tag = "ParameterList" -> legacy_parse_parameter_list(r)
    [] tag = "FunctionDefinition" -> legacy_parse_function_definition(r)
    [] tag = "VariableDeclaration" -> legacy_parse_variable_declaration(r)
    [] tag = "ModifierDefinition" -> legacy_parse_modifier_definition(r)
    [] tag = "ModifierInvocation" -> legacy_parse_modifier_invocation(r)
    [] tag = "ElementaryTypeName" -> legacy_parse_elementary_type_name(r)
    [] tag = "UserDefinedTypeName" -> legacy_parse_user_defined_type_name(r)
    [] tag = "ArrayTypeName" -> legacy_parse_array_type_name(r)
    [] tag = "InlineAssembly" -> legacy_parse_inline_assembly(r)
    [] tag = "Block" -> legacy_parse_block(r)
    [] tag = "PlaceholderStatement" -> legacy_parse_placeholder_statement(r)
    [] tag = "Return" -> legacy_parse_return(r)
    [] tag = "Throw" -> legacy_parse_throw(r)
    [] tag = "VariableDeclarationStatement" -> legacy_parse_variable_definition_statement(r)
    [] tag = "VariableDefinitionStatement" -> legacy_parse_variable_definition_statement(r)
    [] tag = "ExpressionStatement" -> legacy_parse_expression_statement(r)
    [] tag = "Conditional" -> legacy_parse_conditional(r)
    [] tag = "Assignment" -> legacy_parse_assignment(r)
    [] tag = "TupleExpression" -> legacy_parse_tuple_expression(r)
    [] tag = "BinaryOperation" -> legacy_parse_binary_operation(r)
    [] tag = "FunctionCall" -> legacy_parse_function_call(r)
    [] tag = "FunctionCallOptions" -> legacy_parse_function_call_options(r)
    [] tag = "NewExpression" -> legacy_parse_new_expression(r)
    [] tag = "MemberAccess" -> legacy_parse_member_access(r)
    [] tag = "IndexAccess" -> legacy_parse_index_access(r)
    [] tag = "IndexRangeAccess" -> legacy_parse_index_range_access(r)
    [] tag = "Identifier" -> legacy_parse_identifier(r)
    [] tag = "ElementaryTypeNameExpression" -> legacy_parse_elementary_type_name_expression(r)
    [] tag = "Literal" -> legacy_parse_literal(r)
    [] OTHER -> legacy_parse_unsupported(r)

\* except Exception as e: raise ParsingError(msg, raw['name'], e, raw.keys(), raw)
legacy_parse_except(r, e) ==
  Bind(GetItem(r, "name"), LAMBDA tag :
  Raise(ParsingError([msg |-> "failed to parse legacy json node", tag |-> tag,
                      cause |-> e, keys |-> Keys(r), raw |-> r])))

\* A parse whose handler wraps every exception, ParsingError included.
legacy_parse_rewrap(r) ==
  LET try == Bind(GetItem(r, "name"), LAMBDA tag : legacy_PARSERS(tag, r))
  IN Entered(IF try.ok THEN try
             ELSE After(try, legacy_parse_except(r, try.exc)))

legacy_parse(r) ==
  LET try == Bind(GetItem(r, "name"), LAMBDA tag : legacy_PARSERS(tag, r))
  IN Entered(IF try.ok THEN try
             ELSE IF try.exc.type = "ParsingError" THEN try
             ELSE After(try, legacy_parse_except(r, try.exc)))

(***************************************************************************)
(* Raw documents: the JSON solc emits, in the shapes the parsers read.      *)
(***************************************************************************)
\* The longest list (children, statements, nodes) of a generated raw node.
MaxLen == 3

\* All sequences over S of length 0..n.
SeqsUpTo(S, n) == UNION {[1..k -> S] : k \in 0..n}

\* A field that may be left out: no field, or the field with a value of V.
Optional(k, V) == {<<>>} \cup {k :> v : v \in V}

Src == "0:1:0"

TD(t) == [typeString |-> t]

CLiteral(i) ==
  [nodeType |-> "Literal", id |-> i, src |-> Src, kind |-> "number", value |-> "1",
   hexValue |-> "31", subdenomination |-> None, typeDescriptions |-> TD("int_const 1")]

CIdentifier(i) ==
  [nodeType |-> "Identifier", id |-> i, src |-> Src, name |-> "x",
   typeDescriptions |-> TD("uint256")]

CElementaryTypeName(i) ==
  [nodeType |-> "ElementaryTypeName", id |-> i, src |-> Src, name |-> "uint256"]

CBreak(i) == [nodeType |-> "Break", id |-> i, src |-> Src]

\* a node of a kind the dispatch table does not hold
CUnknown(i) == [nodeType |-> "NotARealKind", id |-> i, src |-> Src]

\* a node without its kind tag
CNoTag(i) == [id |-> i, src |-> Src]

\* a Literal without its required fields
CBadLiteral(i) == [nodeType |-> "Literal", id |-> i, src |-> Src]

CExpressionStatement(i, e) ==
  [nodeType |-> "ExpressionStatement", id |-> i, src |-> Src, expression |-> e]

CReturn(i, e) == [nodeType |-> "Return", id |-> i, src |-> Src, expression |-> e]

CBlock(i, stmts) == [nodeType |-> "Block", id |-> i, src |-> Src, statements |-> PyList(stmts)]

CIfStatement(i, c, t) ==
  [nodeType |-> "IfStatement", id |-> i, src |-> Src, condition |-> c, trueBody |-> t]

CIfElseStatement(i, c, t, f) == CIfStatement(i, c, t) @@ [falseBody |-> f]

CForStatement(i, init, cond, loop, body) ==
  [nodeType |-> "ForStatement", id |-> i, src |-> Src, initializationExpression |-> init,
   condition |-> cond, loopExpression |-> loop, body |-> body]

CParameterList(i, ps) ==
  [nodeType |-> "ParameterList", id |-> i, src |-> Src, parameters |-> PyList(ps)]

CFunctionDefinition(i, body) ==
  [nodeType |-> "FunctionDefinition", id |-> i, src |-> Src, name |-> "f",
   stateMutability |-> "nonpayable", kind |-> "function", modifiers |-> PyList(<<>>),
   parameters |-> CParameterList(i + 1, <<>>),
   returnParameters |-> CParameterList(i + 2, <<>>), body |-> body]

CContractDefinition(i, nodes) ==
  [nodeType |-> "ContractDefinition", id |-> i, src |-> Src, name |-> "C",
   contractKind |-> "contract", linearizedBaseContracts |-> PyList(<<i>>),
   nodes |-> PyList(nodes)]

CPragmaDirective(i) ==
  [nodeType |-> "PragmaDirective", id |-> i, src |-> Src,
   literals |-> PyList(<<"solidity", "^", "0.6">>)]

CSourceUnit(i, nodes) ==
  [nodeType |-> "SourceUnit", id |-> i, src |-> Src, nodes |-> PyList(nodes)]

\* a statement at depth 5 of a whole document
CDocument(stmt) ==
  CSourceUnit(1, <<CPragmaDirective(2),
                   CContractDefinition(3, <<CFunctionDefinition(4, CBlock(7, <<stmt>>))>>)>>)

\* raw nodes whose extraction fails
CFailing == {CUnknown(9), CNoTag(9), CBadLiteral(9), None}

CAtoms == {CLiteral(8), CIdentifier(8), CElementaryTypeName(8), CBreak(8)} \cup CFailing

CStatementSlots == {CBreak(8), CExpressionStatement(8, CLiteral(9)), CLiteral(8)} \cup CFailing

CForStatements ==
  {CForStatement(10, init, cond, loop, body) :
     init \in {None, CBreak(11), CLiteral(11)},
     cond \in {None, CLiteral(12), CBreak(12)},
     loop \in {None, CExpressionStatement(13, CLiteral(14)), CBreak(13)},
     body \in {CBlock(15, <<>>), CUnknown(15)}}

CIfStatements ==
  {CIfStatement(10, c, t) : c \in {CLiteral(11), CBreak(11), CUnknown(11)},
                            t \in {CBreak(12), CLiteral(12), None}}
  \cup {CIfElseStatement(10, c, t, f) :
          c \in {CLiteral(11), CBreak(11)}, t \in {CBreak(12), CBadLiteral(12)},
          f \in {None, CBreak(13), CLiteral(13), CUnknown(13)}}

CStatements ==
  {CExpressionStatement(10, a) : a \in CAtoms} \cup {CReturn(10, a) : a \in CAtoms}
  \cup CForStatements \cup CIfStatements
  \cup {CBlock(10, ss) : ss \in SeqsUpTo(CStatementSlots, MaxLen)}

CTopLevel ==
  {CPragmaDirective(20), CContractDefinition(20, <<>>),
   CContractDefinition(20, <<CFunctionDefinition(21, CBlock(24, <<CUnknown(25)>>))>>)}
  \cup CFailing

CTupleExpression(i, components) ==
  [nodeType |-> "TupleExpression", id |-> i, src |-> Src, isInlineArray |-> FALSE,
   components |-> PyList(components), typeDescriptions |-> TD("tuple()")]

CTupleExpressions ==
  {CTupleExpression(10, cs) : cs \in SeqsUpTo({CLiteral(11), CBreak(11), None}, 2)}

\* What a raw declaration may say about its canonical name and visibility.
CDeclOptions ==
  {c @@ v : c \in Optional("canonicalName", {"C.x"}),
            v \in Optional("visibility", {"internal"})}

CVariableDeclaration(i, decl) ==
  [nodeType |-> "VariableDeclaration", id |-> i, src |-> Src, name |-> "v",
   typeName |-> CElementaryTypeName(i + 1), value |-> None,
   typeDescriptions |-> TD("uint256"), constant |-> FALSE] @@ decl

CEnumValue(i, decl) == [nodeType |-> "EnumValue", id |-> i, src |-> Src, name |-> "A"] @@ decl

CStructDefinition(i, decl, members) ==
  [nodeType |-> "StructDefinition", id |-> i, src |-> Src, name |-> "S",
   members |-> PyList(members)] @@ decl

CEnumDefinition(i, decl, members) ==
  [nodeType |-> "EnumDefinition", id |-> i, src |-> Src, name |-> "E",
   members |-> PyList(members)] @@ decl

CDeclarations ==
  {CVariableDeclaration(30, d) : d \in CDeclOptions}
  \cup {CEnumValue(30, d) : d \in CDeclOptions}
  \cup {CStructDefinition(30, d, <<CVariableDeclaration(31, <<>>)>>) : d \in CDeclOptions}
  \cup {CStructDefinition(30, <<>>, ms) :
          ms \in SeqsUpTo({CVariableDeclaration(31, <<>>), CVariableDeclaration(33, <<>>),
                           CEnumValue(35, <<>>)}, MaxLen - 1)}
  \cup {CEnumDefinition(30, <<>>, ms) :
          ms \in SeqsUpTo({CEnumValue(31, <<>>), CEnumValue(32, <<>>),
                           CVariableDeclaration(33, <<>>)}, MaxLen - 1)}

\* What a raw expression may say about its two flags.
ExprFlags ==
  {c @@ q : c \in Optional("isConstant", BOOLEAN), q \in Optional("isPure", BOOLEAN)}

CIdentifierWith(i, flags) == CIdentifier(i) @@ flags

CFlaggedExpressions ==
  {CIdentifierWith(90, f) : f \in ExprFlags} \cup {CLiteral(90) @@ f : f \in ExprFlags}

CParameterLists ==
  {CParameterList(100, ps) :
     ps \in SeqsUpTo({CVariableDeclaration(101, <<>>), CVariableDeclaration(103, <<>>),
                      CLiteral(105), None}, MaxLen)}

\* A Literal spelt out: kind k, value v, hex value h, subdenomination s, type t.
CLiteralOf(i, k, v, h, s, t) ==
  [nodeType |-> "Literal", id |-> i, src |-> Src, kind |-> k, value |-> v,
   hexValue |-> h, subdenomination |-> s, typeDescriptions |-> TD(t)]

LiteralKinds == {"number", "string"}

LiteralValues == {"1", "ab"}

LiteralHexValues == {"31", "6162"}

LiteralTypes == {"int_const 1", "literal_string"}

LiteralIds == {7, 9}

CLiterals(S) ==
  {CLiteralOf(i, k, v, h, s, t) :
     i \in LiteralIds, k \in LiteralKinds, v \in LiteralValues, h \in LiteralHexValues,
     s \in S, t \in LiteralTypes}

CModifierInvocation(i, arguments) ==
  [nodeType |-> "ModifierInvocation", id |-> i, src |-> Src,
   modifierName |-> CIdentifier(i + 1), arguments |-> arguments]

CModifierArguments ==
  SeqsUpTo({CLiteralOf(133, "number", "1", "31", None, "int_const 1"),
            CLiteralOf(134, "string", "ab", "6162", None, "literal_string")}, MaxLen - 1)

CModifierInvocations ==
  {CModifierInvocation(130, None)}
  \cup {CModifierInvocation(130, PyList(args)) : args \in CModifierArguments}

CompactInputs ==
  CAtoms \cup CStatements \cup {CDocument(s) : s \in CStatements \ CForStatements}
  \cup CTupleExpressions \cup CDeclarations \cup CFlaggedExpressions
  \cup CParameterLists \cup CModifierInvocations
  \cup {CSourceUnit(1, ns) : ns \in SeqsUpTo(CTopLevel, MaxLen)}
  \cup {[nodeType |-> "SourceUnit", id |-> 1, src |-> Src],
        [nodeType |-> "SourceUnit", id |-> 1, src |-> Src, nodes |-> None]}

LLiteral(i) ==
  [name |-> "Literal", id |-> i, src |-> Src,
   attributes |-> [token |-> "number", value |-> "42", hexvalue |-> "3432",
                   subdenomination |-> None, type |-> "int_const 42"]]

LIdentifier(i) ==
  [name |-> "Identifier", id |-> i, src |-> Src,
   attributes |-> [type |-> "uint256", value |-> "x"]]

LElementaryTypeName(i) ==
  [name |-> "ElementaryTypeName", id |-> i, src |-> Src,
   attributes |-> [name |-> "uint256", type |-> "uint256"]]

LVariableDeclaration(i) ==
  [name |-> "VariableDeclaration", id |-> i, src |-> Src,
   attributes |-> [name |-> "v", type |-> "uint256", constant |-> FALSE],
   children |-> PyList(<<LElementaryTypeName(i + 1)>>)]

LBlock(i, stmts) == [name |-> "Block", id |-> i, src |-> Src, children |-> PyList(stmts)]

LParameterList(i, ps) ==
  [name |-> "ParameterList", id |-> i, src |-> Src, children |-> PyList(ps)]

LExpressionStatement(i, e) ==
  [name |-> "ExpressionStatement", id |-> i, src |-> Src, children |-> PyList(<<e>>)]

\* a node of kind tag without a children key
LLeaf(tag, i) == [name |-> tag, id |-> i, src |-> Src]

\* a node of kind tag with the value c under its children key
LWithChildren(tag, i, c) == LLeaf(tag, i) @@ [children |-> c]

LNoTag(i) == [id |-> i, src |-> Src]

\* the kinds commented out of the legacy table (legacy_json.py lines 588-626)
\* and a kind no table holds
LUnsupportedKinds ==
  {"ImportDirective", "EventDefinition", "FunctionTypeName", "Mapping", "IfStatement",
   "TryStatement", "TryCatchClause", "WhileStatement", "DoWhileStatement", "ForStatement",
   "Continue", "Break", "EmitStatement", "UnaryOperation", "NotARealKind"}

LChildrenShapes ==
  {PyList(<<>>), PyList(<<LLiteral(31)>>), PyList(<<LLiteral(31), LLeaf("Break", 32)>>),
   PyList(<<None>>), PyList(<<LLiteral(31), None>>), PyList(<<LNoTag(31)>>), None}

LUnsupportedNodes ==
  {LLeaf(k, 30) : k \in LUnsupportedKinds}
  \cup {LWithChildren(k, 30, c) : k \in LUnsupportedKinds, c \in LChildrenShapes}

LFunctionAttributes ==
  {[name |-> n] @@ sm @@ p @@ k @@ c :
     n \in {"", "f"},
     sm \in Optional("stateMutability", {"view", "payable"}),
     p \in Optional("payable", BOOLEAN),
     k \in Optional("kind", {"constructor", "receive"}),
     c \in Optional("isConstructor", BOOLEAN)}

LFunctionDefinition(i, attrs, children) ==
  [name |-> "FunctionDefinition", id |-> i, src |-> Src, attributes |-> attrs,
   children |-> PyList(children)]

LFunctionChildren(body) == <<LParameterList(41, <<>>), LParameterList(42, <<>>), body>>

LFunctionDefinitions ==
  {LFunctionDefinition(40, a, LFunctionChildren(LBlock(43, <<>>))) : a \in LFunctionAttributes}
  \cup {LFunctionDefinition(40, [payable |-> TRUE], LFunctionChildren(LBlock(43, <<>>))),
        LFunctionDefinition(40, [name |-> "f"], <<LParameterList(41, <<>>)>>)}

LContractAttributes ==
  {[name |-> "C", linearizedBaseContracts |-> PyList(<<50>>)] @@ ck @@ l @@ f :
     ck \in Optional("contractKind", {"contract", "library", "interface"}),
     l \in Optional("isLibrary", BOOLEAN),
     f \in Optional("fullyImplemented", BOOLEAN)}

LContractDefinitions ==
  {[name |-> "ContractDefinition", id |-> 50, src |-> Src, attributes |-> a] : a \in LContractAttributes}
  \cup {[name |-> "ContractDefinition", id |-> 50, src |-> Src, attributes |-> a,
         children |-> PyList(<<LFunctionDefinition(40, [name |-> "f"],
                                                   LFunctionChildren(LBlock(43, <<>>)))>>)] :
          a \in LContractAttributes}

LFunctionCallAttributes ==
  {s @@ tc @@ t :
     s \in Optional("isStructConstructorCall", BOOLEAN),
     tc \in Optional("type_conversion", BOOLEAN),
     t \in Optional("type", {"struct S memory", "uint256", "structure"})}

LFunctionCalls ==
  {[name |-> "FunctionCall", id |-> 60, src |-> Src, attributes |-> a,
    children |-> PyList(<<LIdentifier(61), LLiteral(62)>>)] : a \in LFunctionCallAttributes}

LStatementSlots ==
  {LVariableDeclaration(71), LLiteral(71), LElementaryTypeName(71), LBlock(71, <<>>),
   LLeaf("NotARealKind", 71), None}

LVariableDefinitionStatements ==
  {LWithChildren(tag, 70, PyList(cs)) :
     tag \in {"VariableDeclarationStatement", "VariableDefinitionStatement"},
     cs \in SeqsUpTo(LStatementSlots, MaxLen)}

LAtoms ==
  {LLiteral(8), LIdentifier(8), LElementaryTypeName(8), LVariableDeclaration(8),
   LLeaf("PlaceholderStatement", 8), LLeaf("Literal", 8), LLeaf("Throw", 8), LNoTag(8),
   None}

LTopLevel ==
  {[name |-> "PragmaDirective", id |-> 20, src |-> Src,
    attributes |-> [literals |-> PyList(<<"solidity", "^", "0.4">>)]],
   LLeaf("ImportDirective", 20), LLeaf("EnumValue", 20), LNoTag(20), None,
   LWithChildren("Block", 20, PyList(<<LExpressionStatement(21, LLeaf("UnaryOperation", 22))>>))}

LEnumValue(i) == [name |-> "EnumValue", id |-> i, src |-> Src, attributes |-> [name |-> "A"]]

\* What the attributes of a raw legacy declaration may say beyond the name.
LDeclOptions ==
  {c @@ v : c \in Optional("canonicalName", {"C.x"}),
            v \in Optional("visibility", {"internal"})}

LStructDefinition(i, attrs, members) ==
  [name |-> "StructDefinition", id |-> i, src |-> Src,
   attributes |-> [name |-> "S"] @@ attrs, children |-> PyList(members)]

LEnumDefinition(i, attrs, members) ==
  [name |-> "EnumDefinition", id |-> i, src |-> Src,
   attributes |-> [name |-> "E"] @@ attrs, children |-> PyList(members)]

LVariableDeclarationWith(i, top, attrs) ==
  [LVariableDeclaration(i) EXCEPT !.attributes = @ @@ attrs] @@ top

LModifierDefinition(i, attrs) ==
  [name |-> "ModifierDefinition", id |-> i, src |-> Src,
   attributes |-> [name |-> "m"] @@ attrs,
   children |-> PyList(<<LParameterList(i + 1, <<>>), LBlock(i + 2, <<>>)>>)]

LDeclarations ==
  {LStructDefinition(80, a, ms) :
     a \in LDeclOptions,
     ms \in SeqsUpTo({LVariableDeclaration(81), LVariableDeclaration(83), LEnumValue(85)},
                     MaxLen - 1)}
  \cup {LEnumDefinition(80, a, ms) :
          a \in LDeclOptions,
          ms \in SeqsUpTo({LEnumValue(81), LEnumValue(82), LVariableDeclaration(83)},
                          MaxLen - 1)}
  \cup {LEnumValue(80)}
  \cup {LVariableDeclarationWith(80, t, a) :
          t \in Optional("canonicalName", {"C.x"}), a \in Optional("visibility", {"internal"})}
  \cup {LModifierDefinition(80, a) : a \in LDeclOptions}

LIdentifierWith(i, flags) == [LIdentifier(i) EXCEPT !.attributes = @ @@ flags]

LFlaggedExpressions ==
  {LIdentifierWith(90, f) : f \in ExprFlags}
  \cup {[LLiteral(90) EXCEPT !.attributes = @ @@ f] : f \in ExprFlags}

LParameterLists ==
  {LParameterList(100, ps) :
     ps \in SeqsUpTo({LVariableDeclaration(101), LVariableDeclaration(103),
                      LLiteral(105), None}, MaxLen)}

LLiteralOf(i, k, v, h, s, t) ==
  [name |-> "Literal", id |-> i, src |-> Src,
   attributes |-> [token |-> k, value |-> v, hexvalue |-> h, subdenomination |-> s,
                   type |-> t]]

LLiterals(S) ==
  {LLiteralOf(i, k, v, h, s, t) :
     i \in LiteralIds, k \in LiteralKinds, v \in LiteralValues, h \in LiteralHexValues,
     s \in S, t \in LiteralTypes}

LUserDefinedTypeName(i) ==
  [name |-> "UserDefinedTypeName", id |-> i, src |-> Src, attributes |-> [name |-> "T"]]

LModifierInvocation(i, args) ==
  [name |-> "ModifierInvocation", id |-> i, src |-> Src,
   children |-> PyList(<<LIdentifier(i + 1)>> \o args)]

\* A node of kind tag with every attribute a handler of the arity kinds reads.
LNode(tag, i, kids) ==
  [name |-> tag, id |-> i, src |-> Src,
   attributes |-> [name |-> "n", type |-> "uint256", operator |-> "+",
                   member_name |-> "m", type_conversion |-> FALSE],
   children |-> PyList(kids)]

\* For each kind read by position, a child list its handler accepts, as long
\* as the handler can use.
LArityKids ==
  "Conditional" :> <<LLiteral(111), LLiteral(112), LIdentifier(113)>>
  @@ "Assignment" :> <<LIdentifier(111), LLiteral(112)>>
  @@ "BinaryOperation" :> <<LIdentifier(111), LLiteral(112)>>
  @@ "IndexRangeAccess" :> <<LIdentifier(111), LLiteral(112), LLiteral(113)>>
  @@ "ModifierDefinition" :> <<LParameterList(111, <<>>), LBlock(112, <<>>)>>
  @@ "VariableDeclarationStatement" :> <<LVariableDeclaration(111), LLiteral(113)>>
  @@ "ExpressionStatement" :> <<LLiteral(111)>>
  @@ "FunctionCall" :> <<LIdentifier(111), LLiteral(112)>>
  @@ "MemberAccess" :> <<LIdentifier(111)>>
  @@ "NewExpression" :> <<LElementaryTypeName(111)>>
  @@ "IndexAccess" :> <<LIdentifier(111), LLiteral(112)>>
  @@ "ArrayTypeName" :> <<LElementaryTypeName(111), LLiteral(112)>>
  @@ "VariableDeclaration" :> <<LElementaryTypeName(111), LLiteral(112)>>
  @@ "InheritanceSpecifier" :> <<LUserDefinedTypeName(111), LLiteral(112)>>
  @@ "UsingForDirective" :> <<LUserDefinedTypeName(111), LElementaryTypeName(112)>>
  @@ "ModifierInvocation" :> <<LIdentifier(111), LLiteral(112)>>

\* Every kind read by position, over every length of child list up to the
\* longest its handler can use.
LArityNodes ==
  UNION {{LNode(k, 110, SubSeq(LArityKids[k], 1, n)) : n \in 0..Len(LArityKids[k])} :
           k \in DOMAIN LArityKids}
  \cup {LNode("FunctionDefinition", 110, kids) :
          kids \in {<<>>, <<LParameterList(111, <<>>)>>,
                    <<LParameterList(111, <<>>), LParameterList(112, <<>>)>>,
                    <<LParameterList(111, <<>>), LBlock(113, <<>>)>>,
                    <<LParameterList(111, <<>>), LParameterList(112, <<>>),
                      LBlock(113, <<>>)>>}}

\* Function definitions over the layouts of their children: parameters,
\* return parameters, modifiers, body, each slot also with a child of another
\* kind.
LFunctionLayouts ==
  {LNode("FunctionDefinition", 120, <<c0, c1>> \o mid \o <<last>>) :
     c0 \in {LParameterList(121, <<>>), LBlock(121, <<>>)},
     c1 \in {LParameterList(122, <<>>), LLiteral(122)},
     mid \in SeqsUpTo({LModifierInvocation(123, <<>>), LModifierInvocation(125, <<>>),
                       LLiteral(127)}, MaxLen - 1),
     last \in {LBlock(129, <<>>), LModifierInvocation(129, <<>>),
               LParameterList(129, <<>>)}}

LModifierArguments ==
  SeqsUpTo({LLiteralOf(133, "number", "1", "31", None, "int_const 1"),
            LLiteralOf(134, "string", "ab", "6162", None, "literal_string")}, MaxLen - 1)

LModifierInvocations == {LModifierInvocation(130, args) : args \in LModifierArguments}

LegacyInputs ==
  LAtoms \cup LUnsupportedNodes \cup LFunctionDefinitions \cup LContractDefinitions
  \cup LFunctionCalls \cup LVariableDefinitionStatements \cup LDeclarations
  \cup LFlaggedExpressions \cup LParameterLists \cup LArityNodes
  \cup LFunctionLayouts \cup LModifierInvocations
  \cup {LWithChildren("SourceUnit", 1, PyList(cs)) : cs \in SeqsUpTo(LTopLevel, MaxLen)}
  \cup {LLeaf("SourceUnit", 1), LWithChildren("SourceUnit", 1, None)}

(***************************************************************************)
(* The caller: one document, handed once to the entry point of its format.  *)
(***************************************************************************)
\* The caller's record of one call: the parser used, the document handed in,
\* the document as the call left it, and the outcome.
Call(f, given, left, o) == [fmt |-> f, raw |-> given, left |-> left, out |-> o]

Init ==
  /\ pc = "ready"
  /\ out = None
  /\ seen = <<>>
  /\ \/ fmt = "compact" /\ raw \in CompactInputs
     \/ fmt = "compact" /\ raw \in CLiterals({None})
     \/ fmt = "compact" /\ raw \in CLiterals({"ether", "wei"})
     \/ fmt = "legacy" /\ raw \in LegacyInputs
     \/ fmt = "legacy" /\ raw \in LLiterals({None})
     \/ fmt = "legacy" /\ raw \in LLiterals({"ether", "wei"})

ParseCompact ==
  /\ pc = "ready"
  /\ fmt = "compact"
  /\ out' = compact_parse(raw)
  /\ pc' = "done"
  /\ UNCHANGED <<fmt, raw>>
  /\ seen' = Append(seen, Call(fmt, raw, raw', out'))

ParseLegacy ==
  /\ pc = "ready"
  /\ fmt = "legacy"
  /\ out' = legacy_parse(raw)
  /\ pc' = "done"
  /\ UNCHANGED <<fmt, raw>>
  /\ seen' = Append(seen, Call(fmt, raw, raw', out'))

Next == ParseCompact \/ ParseLegacy

Spec == Init /\ [][Next]_vars

\* The caller seen from before it has a document: it picks one, hands it to the
\* entry point of its format, and the call, being synchronous, runs until it
\* returns or raises. The fairness condition is weak fairness of NextTree with
\* its enabling condition written out: a step of NextTree is possible exactly
\* when pc is not "done".
InitIdle ==
  /\ pc = "idle"
  /\ fmt = "compact"
  /\ raw = None
  /\ out = None
  /\ seen = <<>>

Hand ==
  /\ pc = "idle"
  /\ \/ fmt' = "compact" /\ raw' \in CompactInputs
     \/ fmt' = "legacy" /\ raw' \in LegacyInputs
  /\ pc' = "ready"
  /\ UNCHANGED <<out, seen>>

NextTree == Hand \/ ParseCompact \/ ParseLegacy

Trees ==
  InitIdle /\ [][NextTree]_vars /\ ([]<>(pc = "done") \/ []<><<NextTree>>_vars)

(***************************************************************************)
(* The caller that keeps calling: after a call returns or raises, it may   *)
(* hand any document to either entry point again.                          *)
(***************************************************************************)
MaxCalls == 3

CCallDocs ==
  {CLiteral(8), CBreak(8), CUnknown(9), CBadLiteral(9), None,
   CBlock(20, <<CBreak(21), CExpressionStatement(22, CLiteral(23))>>)}

LCallDocs == {LLiteral(8), LVariableDeclaration(8), LLeaf("Literal", 8), LNoTag(8), None}

InitCalls ==
  /\ pc = "ready"
  /\ out = None
  /\ seen = <<>>
  /\ \/ fmt = "compact" /\ raw \in CCallDocs
     \/ fmt = "legacy" /\ raw \in LCallDocs

NextCall ==
  /\ pc = "done"
  /\ Len(seen) < MaxCalls
  /\ \/ fmt' = "compact" /\ raw' \in CCallDocs
     \/ fmt' = "legacy" /\ raw' \in LCallDocs
  /\ pc' = "ready"
  /\ UNCHANGED <<out, seen>>

NextCalls == ParseCompact \/ ParseLegacy \/ NextCall

Calls == InitCalls /\ [][NextCalls]_vars

(***************************************************************************)
(* Properties of the entry points.                                         *)
(***************************************************************************)
Done(f) == pc = "done" /\ fmt = f

Failed(o) == ~o.ok

IsParsingError(o) == ~o.ok /\ o.exc.type = "ParsingError"

HasTag(r, k) == IsDict(r) /\ k \in DOMAIN r

\* C1: whatever goes wrong below the entry point, the caller only ever sees a
\* ParsingError, and one raised for a lower-level failure names that failure
\* as its cause; no KeyError, TypeError, IndexError or AssertionError escapes.
C1_OnlyParsingErrorEscapes ==
  pc = "done" /\ Failed(out) =>
    /\ out.exc.type = "ParsingError"
    /\ "cause" \in DOMAIN out.exc =>
         out.exc.cause.type \in {"KeyError", "TypeError", "IndexError", "AssertionError"}

\* The kind tags of the compact dispatch table.
CompactKinds ==
  {"SourceUnit", "PragmaDirective", "ImportDirective", "ContractDefinition",
   "InheritanceSpecifier", "UsingForDirective", "StructDefinition", "EnumDefinition",
   "EnumValue", "ParameterList", "FunctionDefinition", "VariableDeclaration",
   "ModifierDefinition", "ModifierInvocation", "EventDefinition",
   "ElementaryTypeName", "UserDefinedTypeName", "FunctionTypeName", "Mapping",
   "ArrayTypeName", "InlineAssembly", "Block", "PlaceholderStatement", "IfStatement",
   "TryCatchClause", "TryStatement", "WhileStatement", "DoWhileStatement",
   "ForStatement", "Continue", "Break", "Return", "Throw", "EmitStatement",
   "VariableDeclarationStatement", "ExpressionStatement", "Conditional", "Assignment",
   "TupleExpression", "UnaryOperation", "BinaryOperation", "FunctionCall",
   "FunctionCallOptions", "NewExpression", "MemberAccess", "IndexAccess",
   "IndexRangeAccess", "Identifier", "ElementaryTypeNameExpression", "Literal"}

\* The statement a document built by CDocument holds in its function body.
DocumentStatement(r) == r.nodes.items[2].nodes.items[1].body.statements.items[1]

IsCDocument(r) ==
  /\ HasTag(r, "nodeType") /\ r.nodeType = "SourceUnit"
  /\ "nodes" \in DOMAIN r /\ IsList(r.nodes) /\ Len(r.nodes.items) = 2
  /\ HasTag(r.nodes.items[2], "nodeType")
  /\ r.nodes.items[2].nodeType = "ContractDefinition"
  /\ Len(r.nodes.items[2].nodes.items) = 1
  /\ r = CDocument(DocumentStatement(r))

\* The unsupported-kind error of a compact node.
CUnsupportedError(r) ==
  [type |-> "ParsingError", msg |-> "unsupported compact json node",
   tag |-> r.nodeType, keys |-> DOMAIN r, raw |-> r]

IsCUnsupported(o) ==
  IsParsingError(o) /\ o.exc.msg = "unsupported compact json node"

\* C2: a compact node whose nodeType is not in the dispatch table makes parse
\* fail with the unsupported-kind error carrying exactly that nodeType and the
\* node's field names, at the root and at any depth, and no node is returned.
C2_UnsupportedCompactKind ==
  Done("compact") =>
    /\ HasTag(raw, "nodeType") /\ raw.nodeType \notin CompactKinds =>
         Failed(out) /\ out.exc = CUnsupportedError(raw)
    /\ IsCUnsupported(out) =>
         /\ out.exc.raw.nodeType \notin CompactKinds
         /\ out.exc = CUnsupportedError(out.exc.raw)
    /\ IsCDocument(raw) /\ IsCUnsupported(compact_parse(DocumentStatement(raw))) =>
         Failed(out) /\ out.exc = compact_parse(DocumentStatement(raw)).exc

C2_Witness ==
  /\ Done("compact")
  /\ raw = CDocument(CExpressionStatement(10, CUnknown(9)))
  /\ Failed(out)
  /\ out.exc = CUnsupportedError(CUnknown(9))

\* The kind tags of the legacy dispatch table.
LegacyKinds ==
  {"SourceUnit", "PragmaDirective", "ContractDefinition", "InheritanceSpecifier",
   "UsingForDirective", "StructDefinition", "EnumDefinition", "EnumValue",
   "ParameterList", "FunctionDefinition", "VariableDeclaration", "ModifierDefinition",
   "ModifierInvocation", "ElementaryTypeName", "UserDefinedTypeName", "ArrayTypeName",
   "InlineAssembly", "Block", "PlaceholderStatement", "Return", "Throw",
   "VariableDeclarationStatement", "VariableDefinitionStatement",
   "ExpressionStatement", "Conditional", "Assignment", "TupleExpression",
   "BinaryOperation", "FunctionCall", "FunctionCallOptions", "NewExpression",
   "MemberAccess", "IndexAccess", "IndexRangeAccess", "Identifier",
   "ElementaryTypeNameExpression", "Literal"}

\* C3: a legacy node whose name is not in the dispatch table makes parse fail
\* with the unsupported error (format, tag, field names, names of the immediate
\* children, none when there is no children key), whatever the children list
\* holds, null placeholders included.
C3_UnsupportedLegacyKind ==
  Done("legacy") /\ HasTag(raw, "name") /\ raw.name \notin LegacyKinds
  /\ ("children" \in DOMAIN raw =>
        /\ IsList(raw.children)
        /\ \A i \in DOMAIN raw.children.items :
             IsNone(raw.children.items[i]) \/ HasTag(raw.children.items[i], "name")) =>
    /\ Failed(out)
    /\ out.exc.type = "ParsingError"
    /\ out.exc.msg = "unsupported legacy json node"
    /\ out.exc.tag = raw.name
    /\ out.exc.keys = DOMAIN raw
    /\ "children" \notin DOMAIN raw => out.exc.children = <<>>

ParseOf(f, r) == IF f = "compact" THEN compact_parse(r) ELSE legacy_parse(r)

TagKey(f) == IF f = "compact" THEN "nodeType" ELSE "name"

\* The field holding the children of a SourceUnit or a Block.
KidsKey(f, r) ==
  IF f = "legacy" THEN "children"
  ELSE IF r.nodeType = "SourceUnit" THEN "nodes" ELSE "statements"

IsContainer(f, r) ==
  /\ HasTag(r, TagKey(f)) /\ r[TagKey(f)] \in {"SourceUnit", "Block"}
  /\ KidsKey(f, r) \in DOMAIN r /\ IsList(r[KidsKey(f, r)])
  /\ {"id", "src"} \subseteq DOMAIN r

Kids(f, r) == r[KidsKey(f, r)].items

\* The child fails: its parse raises, or a Block finds it is no Statement.
KidFails(f, r, i) ==
  LET o == ParseOf(f, Kids(f, r)[i])
  IN \/ ~o.ok
     \/ r[TagKey(f)] = "Block" /\ ~IsInstance(o.val, Statement)

\* What the container raises when child i is the first to fail: the child's
\* ParsingError as it is, anything else wrapped once with the container's tag.
KidError(f, r, i) ==
  LET o == ParseOf(f, Kids(f, r)[i])
  IN IF ~o.ok /\ o.exc.type = "ParsingError" THEN o.exc
     ELSE [type |-> "ParsingError",
           msg |-> "failed to parse " \o f \o " json node",
           tag |-> r[TagKey(f)],
           cause |-> IF o.ok THEN AssertionError ELSE o.exc,
           keys |-> DOMAIN r, raw |-> r]

RECURSIVE KidCalls(_, _, _)
\* The parse() calls spent on the first n children.
KidCalls(f, r, n) ==
  IF n = 0 THEN 0 ELSE KidCalls(f, r, n - 1) + ParseOf(f, Kids(f, r)[n]).calls

FirstOf(S) == CHOOSE i \in S : \A j \in S : i <= j

\* C4: extraction is all or nothing. A SourceUnit or Block comes back only when
\* every child parsed; otherwise the entry call raises the error of the first
\* child that fails, no child after it is parsed (the calls made are the
\* container's own plus those of the children up to the failing one), and a
\* failure nested in a document surfaces unchanged at the entry point.
C4_AllOrNothing ==
  /\ pc = "done" /\ IsContainer(fmt, raw) =>
       LET bad == {i \in DOMAIN Kids(fmt, raw) : KidFails(fmt, raw, i)}
       IN IF bad = {}
          THEN /\ out.ok
               /\ out.calls = 1 + KidCalls(fmt, raw, Len(Kids(fmt, raw)))
          ELSE /\ Failed(out)
               /\ out.exc = KidError(fmt, raw, FirstOf(bad))
               /\ out.calls = 1 + KidCalls(fmt, raw, FirstOf(bad))
  /\ Done("compact") /\ IsCDocument(raw) =>
       LET o == compact_parse(DocumentStatement(raw))
       IN /\ out.ok <=> o.ok /\ IsInstance(o.val, Statement)
          /\ IsParsingError(o) => Failed(out) /\ out.exc = o.exc /\ out.calls = 5 + o.calls

C4_Witness ==
  /\ Done("compact")
  /\ raw = CSourceUnit(1, <<CPragmaDirective(20), CUnknown(9), CBadLiteral(9)>>)
  /\ Failed(out)
  /\ out.exc = CUnsupportedError(CUnknown(9))
  /\ out.calls = 3

\* The legacy entry point returned a node for a raw node of the given name.
LParsed(name) ==
  Done("legacy") /\ HasTag(raw, "name") /\ raw.name = name /\ out.ok

Has(k) == k \in DOMAIN raw.attributes

\* C5: the mutability of a legacy FunctionDefinition is stateMutability as it
\* is when present; otherwise "payable" or "nonpayable" after the payable flag
\* when present; otherwise "payable".
C5_LegacyFunctionMutability ==
  LParsed("FunctionDefinition") =>
    /\ out.val.class = "FunctionDefinition"
    /\ Has("stateMutability") => out.val.mutability = raw.attributes.stateMutability
    /\ ~Has("stateMutability") /\ Has("payable") /\ raw.attributes.payable =>
         out.val.mutability = "payable"
    /\ ~Has("stateMutability") /\ Has("payable") /\ ~raw.attributes.payable =>
         out.val.mutability = "nonpayable"
    /\ ~Has("stateMutability") /\ ~Has("payable") => out.val.mutability = "payable"

C5_Witness ==
  /\ LParsed("FunctionDefinition")
  /\ ~Has("stateMutability") /\ ~Has("payable")
  /\ out.val.mutability = "payable"

\* C6: the kind of a legacy FunctionDefinition is the kind attribute as it is
\* when present; otherwise "constructor" when isConstructor is present and
\* true; otherwise, isConstructor being absent or false, "fallback" for the
\* empty name and "function" for any other.
C6_LegacyFunctionKind ==
  LParsed("FunctionDefinition") =>
    /\ Has("kind") => out.val.kind = raw.attributes.kind
    /\ ~Has("kind") /\ Has("isConstructor") /\ raw.attributes.isConstructor =>
         out.val.kind = "constructor"
    /\ ~Has("kind") /\ (~Has("isConstructor") \/ ~raw.attributes.isConstructor) =>
         /\ Has("name")
         /\ raw.attributes.name = "" => out.val.kind = "fallback"
         /\ raw.attributes.name # "" => out.val.kind = "function"

C6_Witness ==
  /\ LParsed("FunctionDefinition")
  /\ ~Has("kind") /\ Has("isConstructor") /\ ~raw.attributes.isConstructor
  /\ raw.attributes.name = ""
  /\ out.val.kind = "fallback"

\* C7: the kind of a legacy ContractDefinition is contractKind as it is when
\* present; otherwise "library" when isLibrary is true, whatever
\* fullyImplemented says; otherwise "contract" when fullyImplemented is true
\* and "interface" when it is not.
C7_LegacyContractKind ==
  LParsed("ContractDefinition") =>
    /\ Has("contractKind") => out.val.kind = raw.attributes.contractKind
    /\ ~Has("contractKind") => Has("isLibrary")
    /\ ~Has("contractKind") /\ Has("isLibrary") /\ raw.attributes.isLibrary =>
         out.val.kind = "library"
    /\ ~Has("contractKind") /\ Has("isLibrary") /\ ~raw.attributes.isLibrary =>
         /\ Has("fullyImplemented")
         /\ raw.attributes.fullyImplemented => out.val.kind = "contract"
         /\ ~raw.attributes.fullyImplemented => out.val.kind = "interface"

C7_Witness ==
  /\ LParsed("ContractDefinition")
  /\ ~Has("contractKind") /\ raw.attributes.isLibrary
  /\ Has("fullyImplemented") /\ raw.attributes.fullyImplemented
  /\ out.val.kind = "library"

\* C8: the kind of a legacy FunctionCall is one of structConstructorCall,
\* typeConversion and functionCall. With isStructConstructorCall present, true
\* gives structConstructorCall and false leaves type_conversion to choose
\* between the other two; with it absent, type_conversion true gives
\* typeConversion, else a type starting with "struct " gives
\* structConstructorCall, else functionCall. The prefix is looked at only when
\* the flag is absent.
C8_LegacyFunctionCallKind ==
  LParsed("FunctionCall") =>
    /\ out.val.kind \in {"structConstructorCall", "typeConversion", "functionCall"}
    /\ Has("isStructConstructorCall") /\ raw.attributes.isStructConstructorCall =>
         out.val.kind = "structConstructorCall"
    /\ (Has("isStructConstructorCall") /\ raw.attributes.isStructConstructorCall)
       \/ Has("type_conversion")
    /\ Has("type")
    /\ Has("isStructConstructorCall") /\ ~raw.attributes.isStructConstructorCall =>
         out.val.kind = IF raw.attributes.type_conversion THEN "typeConversion"
                        ELSE "functionCall"
    /\ ~Has("isStructConstructorCall") /\ Has("type_conversion")
       /\ raw.attributes.type_conversion =>
         out.val.kind = "typeConversion"
    /\ ~Has("isStructConstructorCall") /\ Has("type_conversion")
       /\ ~raw.attributes.type_conversion =>
         out.val.kind = IF raw.attributes.type = "struct S memory"
                        THEN "structConstructorCall" ELSE "functionCall"

C8_Witness ==
  /\ LParsed("FunctionCall")
  /\ Has("isStructConstructorCall") /\ ~raw.attributes.isStructConstructorCall
  /\ ~raw.attributes.type_conversion
  /\ raw.attributes.type = "struct S memory"
  /\ out.val.kind = "functionCall"

\* The nodes the legacy parser returns for the first n children of raw.
LKidNodes(n) == [i \in 1..n |-> legacy_parse(raw.children.items[i]).val]

\* C9: in a legacy variable declaration statement every child but the last is a
\* declared variable, in order; a last child that parses to a
\* VariableDeclaration is one more declared variable and there is no
\* initializer, any other last child is the initializer, after the n-1
\* declared variables; and the initializer, when there is one, is an Expression.
C9_LegacyVariableDeclarationStatement ==
  (LParsed("VariableDeclarationStatement") \/ LParsed("VariableDefinitionStatement")) =>
    LET n == Len(raw.children.items)
        last == legacy_parse(raw.children.items[n]).val
    IN /\ n >= 1
       /\ \A i \in 1..(n - 1) : LKidNodes(n)[i].class = "VariableDeclaration"
       /\ IF last.class = "VariableDeclaration"
          THEN /\ out.val.variables.items = LKidNodes(n)
               /\ out.val.initial_value = None
          ELSE /\ out.val.variables.items = LKidNodes(n - 1)
               /\ out.val.initial_value = last
               /\ IsInstance(out.val.initial_value, Expression)

\* The parts of a well-formed compact for loop, each optional part given or null.
CForLoopParts(r) ==
  /\ HasTag(r, "nodeType") /\ r.nodeType = "ForStatement"
  /\ r.initializationExpression \in {None, CBreak(11)}
  /\ r.condition \in {None, CLiteral(12)}
  /\ r.loopExpression \in {None, CExpressionStatement(13, CLiteral(14))}
  /\ r.body = CBlock(15, <<>>)

\* The node an optional part gives: null for null, its parse otherwise.
COptionalPart(part) == IF IsNone(part) THEN None ELSE compact_parse(part).val

\* C10: a compact ForStatement parses to a ForStatement node whether or not
\* its initializer, condition and loop expression are null; a null part gives
\* a null field and the other parts are parsed as usual.
C10_CompactForOptionalParts ==
  Done("compact") /\ CForLoopParts(raw) =>
    /\ out.ok
    /\ out.val.class = "ForStatement"
    /\ out.val.init = COptionalPart(raw.initializationExpression)
    /\ out.val.cond = COptionalPart(raw.condition)
    /\ out.val.loop = COptionalPart(raw.loopExpression)
    /\ out.val.body = compact_parse(raw.body).val

\* The raw node parses, with the compact parser, to a node of group C.
CParsesTo(r, C) == compact_parse(r).ok /\ IsInstance(compact_parse(r).val, C)

\* A compact if statement whose condition and true body are well formed.
CIfWellFormed(r) ==
  /\ HasTag(r, "nodeType") /\ r.nodeType = "IfStatement"
  /\ CParsesTo(r.condition, Expression)
  /\ CParsesTo(r.trueBody, Statement)

\* C11: a compact IfStatement without else-branch, the falseBody key absent or
\* null, parses to an IfStatement with a null false body and its condition and
\* true body parsed; a falseBody that is there parses to the false body, which
\* is a Statement.
C11_CompactIfFalseBody ==
  Done("compact") /\ CIfWellFormed(raw) =>
    /\ "falseBody" \notin DOMAIN raw \/ IsNone(raw.falseBody) =>
         /\ out.ok
         /\ out.val.class = "IfStatement"
         /\ out.val.false_body = None
         /\ out.val.condition = compact_parse(raw.condition).val
         /\ out.val.true_body = compact_parse(raw.trueBody).val
    /\ "falseBody" \in DOMAIN raw /\ ~IsNone(raw.falseBody) =>
         IF CParsesTo(raw.falseBody, Statement)
         THEN /\ out.ok
              /\ out.val.false_body = compact_parse(raw.falseBody).val
              /\ out.val.condition = compact_parse(raw.condition).val
              /\ out.val.true_body = compact_parse(raw.trueBody).val
         ELSE Failed(out)

C11_Witness ==
  /\ Done("compact") /\ CIfWellFormed(raw)
  /\ "falseBody" \in DOMAIN raw /\ IsNone(raw.falseBody)
  /\ out.ok /\ out.val.false_body = None

\* Every item of a parsed list is null or a node of group C.
AllOf(list, C) == \A i \in DOMAIN list.items : IsNone(list.items[i]) \/ IsInstance(list.items[i], C)

\* C12: a node the compact parser returns never holds a child of another
\* capability group than its position requires: conditions, returned
\* expressions, statement expressions and tuple components are Expressions,
\* bodies and block items are Statements.
C12_CompactChildGroups ==
  Done("compact") /\ out.ok =>
    /\ out.val.class = "IfStatement" =>
         /\ IsInstance(out.val.condition, Expression)
         /\ IsInstance(out.val.true_body, Statement)
         /\ IsNone(out.val.false_body) \/ IsInstance(out.val.false_body, Statement)
    /\ out.val.class = "ForStatement" =>
         /\ IsInstance(out.val.init, Statement)
         /\ IsInstance(out.val.cond, Expression)
         /\ IsInstance(out.val.body, Statement)
    /\ out.val.class = "Block" => AllOf(out.val.statements, Statement)
    /\ out.val.class = "ExpressionStatement" => IsInstance(out.val.expression, Expression)
    /\ out.val.class = "Return" =>
         IsNone(out.val.expression) \/ IsInstance(out.val.expression, Expression)
    /\ out.val.class = "TupleExpression" => AllOf(out.val.components, Expression)

\* The nodes the compact parser returns for the items of a raw list.
CNodesOf(list) == [i \in DOMAIN list.items |-> compact_parse(list.items[i]).val]

\* C13: a compact StructDefinition (EnumDefinition) whose members are n well
\* formed VariableDeclarations (EnumValues) parses to a node whose members are
\* those n parsed members, in document order.
C13_CompactMembers ==
  /\ Done("compact") /\ HasTag(raw, "nodeType") /\ raw.nodeType = "StructDefinition"
     /\ (\A i \in DOMAIN raw.members.items :
           CParsesTo(raw.members.items[i], {"VariableDeclaration"})) =>
       out.ok /\ out.val.members.items = CNodesOf(raw.members)
  /\ Done("compact") /\ HasTag(raw, "nodeType") /\ raw.nodeType = "EnumDefinition"
     /\ (\A i \in DOMAIN raw.members.items :
           CParsesTo(raw.members.items[i], {"EnumValue"})) =>
       out.ok /\ out.val.members.items = CNodesOf(raw.members)

\* C14: every node either parser returns carries the id and the source range
\* of its own raw node as they are; only the legacy SourceUnit root gets the
\* id -1 and the empty range, whatever its raw node holds.
C14_IdAndSourceRange ==
  pc = "done" /\ out.ok =>
    /\ {"id", "src"} \subseteq DOMAIN out.val
    /\ IF fmt = "legacy" /\ raw.name = "SourceUnit"
       THEN out.val.id = -1 /\ out.val.src = ""
       ELSE out.val.id = raw.id /\ out.val.src = raw.src

\* Two Python values are the same value, whatever their types.
SameValue(a, b) == ToString(a) = ToString(b)

\* The entry point returned a Declaration with a name, a canonical name and a
\* visibility.
DeclarationReturned ==
  pc = "done" /\ out.ok /\ out.val.class \in Declaration \ {"SourceUnit"}

\* Where a raw declaration says its canonical name and visibility.
DeclGiven == IF fmt = "compact" THEN raw ELSE raw.attributes

\* The legacy declarations built from the shared declaration properties.
LegacyDeclProps == {"ContractDefinition", "FunctionDefinition", "VariableDeclaration"}

C16_LegacyStructEnumCanonicalName ==
  (LParsed("StructDefinition") \/ LParsed("EnumDefinition")) =>
    /\ Has("canonicalName") =>
         SameValue(out.val.canonical_name, raw.attributes.canonicalName)
    /\ ~Has("canonicalName") =>
         /\ SameValue(out.val.canonical_name, None)
         /\ ~SameValue(out.val.canonical_name, PyStr(""))

C16_Witness ==
  /\ LParsed("StructDefinition")
  /\ ~Has("canonicalName") /\ Has("visibility")
  /\ Len(out.val.members.items) = 2
  /\ out.val.canonical_name = None

\* Where a raw expression carries its flags and its type descriptor.
ExprGiven == IF fmt = "compact" THEN raw ELSE raw.attributes

ExprTypeGiven == IF fmt = "compact" THEN raw.typeDescriptions.typeString ELSE raw.attributes.type

\* C17: in an Expression node of either parser isConstant and isPure are false
\* when the raw node omits them and the raw value when it gives them, and the
\* type string is the raw type descriptor.
C17_ExpressionFlags ==
  pc = "done" /\ out.ok /\ out.val.class \in Expression =>
    /\ out.val.type_str = ExprTypeGiven
    /\ out.val.constant =
         (IF "isConstant" \in DOMAIN ExprGiven THEN ExprGiven.isConstant ELSE FALSE)
    /\ out.val.pure =
         (IF "isPure" \in DOMAIN ExprGiven THEN ExprGiven.isPure ELSE FALSE)

\* The raw slots of a parameter list.
Slots == IF fmt = "compact" THEN raw.parameters.items ELSE raw.children.items

\* A null placeholder, which only the legacy format has.
IsPlaceholder(slot) == fmt = "legacy" /\ IsNone(slot)

SlotParses(slot) ==
  ParseOf(fmt, slot).ok /\ IsInstance(ParseOf(fmt, slot).val, {"VariableDeclaration"})

\* C18: a parsed ParameterList has one element per raw slot, in the same
\* order: the parsed VariableDeclaration of the slot, or null for a legacy null
\* placeholder, which is neither dropped nor moved; a slot that is no
\* placeholder and does not parse to a VariableDeclaration fails the parse.
C18_ParameterListSlots ==
  pc = "done" /\ HasTag(raw, TagKey(fmt)) /\ raw[TagKey(fmt)] = "ParameterList" =>
    IF \A i \in DOMAIN Slots : IsPlaceholder(Slots[i]) \/ SlotParses(Slots[i])
    THEN /\ out.ok
         /\ Len(out.val.parameters.items) = Len(Slots)
         /\ \A i \in DOMAIN Slots :
              out.val.parameters.items[i] =
                IF IsPlaceholder(Slots[i]) THEN None ELSE ParseOf(fmt, Slots[i]).val
    ELSE Failed(out)

C18_Witness ==
  /\ Done("legacy")
  /\ raw = LParameterList(100, <<None, LVariableDeclaration(101), None>>)
  /\ out.ok
  /\ Len(out.val.parameters.items) = 3
  /\ out.val.parameters.items[1] = None
  /\ out.val.parameters.items[2].id = 101
  /\ out.val.parameters.items[3] = None

\* The document is a Literal giving kind, value, hex value, subdenomination
\* and type, and neither flag.
\* Two flat nodes with the same fields and the same value in each.
SameFields(a, b) ==
  DOMAIN a = DOMAIN b /\ \A k \in DOMAIN a : SameValue(a[k], b[k])

LiteralGiven ==
  /\ HasTag(raw, TagKey(fmt)) /\ raw[TagKey(fmt)] = "Literal"
  /\ {"id", "src"} \subseteq DOMAIN raw
  /\ {"isConstant", "isPure"} \cap DOMAIN raw = {}
  /\ IF fmt = "compact"
     THEN /\ {"kind", "value", "hexValue", "subdenomination", "typeDescriptions"}
               \subseteq DOMAIN raw
          /\ "typeString" \in DOMAIN raw.typeDescriptions
     ELSE /\ "attributes" \in DOMAIN raw
          /\ {"token", "value", "hexvalue", "subdenomination", "type"}
               \subseteq DOMAIN raw.attributes

\* The same Literal written in the other format.
LiteralTwin ==
  IF fmt = "compact"
  THEN [LLiteralOf(raw.id, raw.kind, raw.value, raw.hexValue, raw.subdenomination,
                   raw.typeDescriptions.typeString) EXCEPT !.src = raw.src]
  ELSE [CLiteralOf(raw.id, raw.attributes.token, raw.attributes.value,
                   raw.attributes.hexvalue, raw.attributes.subdenomination,
                   raw.attributes.type) EXCEPT !.src = raw.src]

OtherFormat == IF fmt = "compact" THEN "legacy" ELSE "compact"

\* The fields a Literal node is expected to carry, read off the raw node.
LiteralExpected ==
  LET a == IF fmt = "compact" THEN raw ELSE raw.attributes IN
  [class |-> "Literal", id |-> raw.id, src |-> raw.src,
   kind |-> IF fmt = "compact" THEN a.kind ELSE a.token,
   value |-> a.value,
   hex_value |-> IF fmt = "compact" THEN a.hexValue ELSE a.hexvalue,
   subdenomination |-> a.subdenomination,
   type_str |-> IF fmt = "compact" THEN raw.typeDescriptions.typeString ELSE a.type,
   constant |-> FALSE, pure |-> FALSE]

\* C19: a Literal written in the legacy format and the same Literal written
\* in the compact format (same kind, value, hex value, subdenomination, type,
\* id and src, no flags) parse to equal nodes: kind, value, hex value,
\* subdenomination and type as given, both flags false.
C19_LiteralParity ==
  pc = "done" /\ LiteralGiven =>
    /\ out.ok
    /\ ParseOf(OtherFormat, LiteralTwin).ok
    /\ SameFields(out.val, ParseOf(OtherFormat, LiteralTwin).val)
    /\ SameFields(out.val, LiteralExpected)

C19_Witness ==
  /\ Done("legacy") /\ LiteralGiven
  /\ raw.attributes.value = "1" /\ raw.attributes.hexvalue = "6162"
  /\ SameValue(raw.attributes.subdenomination, "ether")
  /\ out.ok
  /\ out.val.value = "1" /\ out.val.hex_value = "6162"
  /\ SameValue(out.val.subdenomination, "ether")
  /\ SameFields(out.val, compact_parse(LiteralTwin).val)

MinArity ==
  [k \in {"FunctionDefinition", "Conditional"} |-> 3]
  @@ [k \in {"Assignment", "BinaryOperation", "IndexRangeAccess", "ModifierDefinition"} |-> 2]
  @@ [k \in {"VariableDeclarationStatement", "ExpressionStatement", "FunctionCall",
             "MemberAccess", "NewExpression", "IndexAccess", "ArrayTypeName",
             "VariableDeclaration", "InheritanceSpecifier", "UsingForDirective",
             "ModifierInvocation"} |-> 1]

\* The field that holds the one optional child after the required ones.
TrailingField ==
  [IndexRangeAccess |-> "end", IndexAccess |-> "index", ArrayTypeName |-> "len",
   VariableDeclaration |-> "value", UsingForDirective |-> "typename"]

\* The document is a legacy node of a kind read by position, with a list of
\* children.
ArityGiven ==
  /\ Done("legacy") /\ HasTag(raw, "name") /\ raw.name \in DOMAIN MinArity
  /\ "children" \in DOMAIN raw /\ IsList(raw.children)

\* C21: a legacy node of a kind read by position whose child list is shorter
\* than the kind's minimum fails with the structured error and yields no node;
\* the optional child after the required ones is read exactly when the list
\* is long enough to hold it, and is null otherwise.
C21_LegacyMinimumArity ==
  ArityGiven =>
    LET n == Len(raw.children.items)
        min == MinArity[raw.name]
    IN /\ n < min => IsParsingError(out)
       /\ out.ok /\ raw.name \in DOMAIN TrailingField =>
            /\ TrailingField[raw.name] \in DOMAIN out.val
            /\ out.val[TrailingField[raw.name]] =
                 IF n > min THEN legacy_parse(raw.children.items[min + 1]).val ELSE None

C21_Witness ==
  /\ ArityGiven
  /\ raw.name = "IndexRangeAccess"
  /\ Len(raw.children.items) = 1
  /\ legacy_parse(raw.children.items[1]).ok
  /\ IsParsingError(out)
  /\ out.exc.cause.type = "IndexError"

\* The keys under which the compact handlers look for children, in the order
\* of compact_json.py.
CChildKeys ==
  <<"parameters", "returnParameters", "nodes", "baseName", "arguments", "libraryName",
    "typeName", "members", "body", "modifiers", "value", "modifierName",
    "parameterTypes", "returnParameterTypes", "keyType", "valueType", "baseType",
    "length", "statements", "condition", "trueBody", "falseBody", "block",
    "externalCall", "clauses", "initializationExpression", "loopExpression",
    "expression", "eventCall", "declarations", "initialValue", "trueExpression",
    "falseExpression", "leftHandSide", "rightHandSide", "components", "subExpression",
    "leftExpression", "rightExpression", "options", "baseExpression",
    "indexExpression", "startExpression", "endExpression">>

\* The raw values under key k of a compact node that a handler may parse: the
\* items of a list, or the value itself. The value of a Literal is a string,
\* not a child.
CKidsAt(r, k) ==
  IF k \notin DOMAIN r THEN <<>>
  ELSE IF k = "value" /\ ~("nodeType" \in DOMAIN r /\ r.nodeType = "VariableDeclaration")
  THEN <<>>
  ELSE IF IsList(r[k]) THEN r[k].items ELSE <<r[k]>>

\* The child slots of a raw node, null slots included.
RawKids(f, r) ==
  IF ~IsDict(r) THEN <<>>
  ELSE IF f = "legacy"
  THEN (IF "children" \in DOMAIN r /\ IsList(r.children) THEN r.children.items ELSE <<>>)
  ELSE LET cat[i \in 0..Len(CChildKeys)] ==
             IF i = 0 THEN <<>> ELSE cat[i - 1] \o CKidsAt(r, CChildKeys[i])
       IN cat[Len(CChildKeys)]

RECURSIVE RawNodes(_, _)
\* The number of nodes of a raw tree.
RawNodes(f, r) ==
  LET kids == RawKids(f, r)
      sum[i \in 0..Len(kids)] == IF i = 0 THEN 0 ELSE sum[i - 1] + RawNodes(f, kids[i])
  IN 1 + sum[Len(kids)]

RECURSIVE RawNesting(_, _)
\* The nesting depth of a raw tree.
RawNesting(f, r) ==
  LET kids == RawKids(f, r)
      deepest[i \in 0..Len(kids)] ==
        IF i = 0 THEN 0 ELSE Max(deepest[i - 1], RawNesting(f, kids[i]))
  IN 1 + deepest[Len(kids)]

\* C22, what a finished call looks like: on a raw tree (a root node with its
\* kind tag) the entry point returned one node or raised the ParsingError, it
\* entered parse no more often than the tree has nodes, and its deepest
\* nesting of parse calls is at most the nesting depth of the tree.
ParseBounded ==
  pc = "done" /\ HasTag(raw, TagKey(fmt)) =>
    /\ IF out.ok THEN "class" \in DOMAIN out.val ELSE IsParsingError(out)
    /\ out.calls <= RawNodes(fmt, raw)
    /\ out.depth <= RawNesting(fmt, raw)

\* C22: the parse of a finite raw tree terminates, returning one root node or
\* raising the ParsingError; it visits each raw node at most once and never
\* nests deeper than the tree.
C22_Terminates == <>(pc = "done") /\ []ParseBounded

C22_Witness ==
  /\ pc = "done" /\ HasTag(raw, TagKey(fmt)) /\ out.ok
  /\ RawNesting(fmt, raw) >= 4
  /\ out.calls = RawNodes(fmt, raw)
  /\ out.depth = RawNesting(fmt, raw)

RECURSIVE IsWithin(_, _, _)
\* n is r or one of the nodes below r.
IsWithin(f, r, n) ==
  \/ r = n
  \/ \E i \in DOMAIN RawKids(f, r) : IsWithin(f, RawKids(f, r)[i], n)

\* C23: a ParsingError is wrapped once and passed on unchanged. The error the
\* caller receives is the very error raised at the dispatch boundary of one
\* node of the document: it carries that node, its kind tag and its keys, its
\* cause (if any) is a low-level failure and never another ParsingError, and
\* parsing that node alone raises the same error.
C23_WrappedOnce ==
  pc = "done" /\ IsParsingError(out) =>
    /\ HasTag(out.exc.raw, TagKey(fmt))
    /\ out.exc.tag = out.exc.raw[TagKey(fmt)]
    /\ out.exc.keys = DOMAIN out.exc.raw
    /\ "cause" \in DOMAIN out.exc => out.exc.cause.type # "ParsingError"
    /\ IsWithin(fmt, raw, out.exc.raw)
    /\ Failed(ParseOf(fmt, out.exc.raw))
    /\ ParseOf(fmt, out.exc.raw).exc = out.exc

C23_Witness ==
  /\ Done("legacy") /\ IsParsingError(out)
  /\ HasTag(raw, "name") /\ raw.name = "SourceUnit"
  /\ out.exc.tag = "UnaryOperation"
  /\ out.exc.raw # raw
  /\ out.depth >= 4

\* The document is a legacy FunctionDefinition with a name and at least three
\* children.
FunctionGiven ==
  /\ Done("legacy") /\ HasTag(raw, "name") /\ raw.name = "FunctionDefinition"
  /\ {"attributes", "children", "id", "src"} \subseteq DOMAIN raw
  /\ "name" \in DOMAIN raw.attributes
  /\ IsList(raw.children) /\ Len(raw.children.items) >= 3

\* Child i of the document parses to a node of class C.
ChildIs(i, C) ==
  legacy_parse(raw.children.items[i]).ok
  /\ IsInstance(legacy_parse(raw.children.items[i]).val, C)

\* C24: a legacy FunctionDefinition with n >= 3 children takes the first for
\* its parameters and the second for its return parameters (ParameterLists),
\* the last for its body (a Block) and those in between for its modifiers
\* (ModifierInvocations, in order), n - 3 of them; with any child of another
\* kind, a last child that is no Block included, the parse fails.
C24_LegacyFunctionLayout ==
  FunctionGiven =>
    LET n == Len(raw.children.items)
        P(i) == legacy_parse(raw.children.items[i]).val
    IN IF /\ ChildIs(1, {"ParameterList"}) /\ ChildIs(2, {"ParameterList"})
          /\ \A i \in 3..(n - 1) : ChildIs(i, {"ModifierInvocation"})
          /\ ChildIs(n, {"Block"})
       THEN /\ out.ok
            /\ out.val.params = P(1) /\ out.val.rets = P(2) /\ out.val.body = P(n)
            /\ Len(out.val.modifiers.items) = n - 3
            /\ \A j \in 1..(n - 3) : out.val.modifiers.items[j] = P(j + 2)
       ELSE Failed(out)

C24_Witness ==
  /\ FunctionGiven /\ out.ok
  /\ Len(raw.children.items) = 5
  /\ Len(out.val.modifiers.items) = 2
  /\ out.val.modifiers.items[1].id = 123 /\ out.val.modifiers.items[2].id = 125
  /\ out.val.body.class = "Block" /\ out.val.body.id = 129

\* The document is a ModifierInvocation whose modifier name is an Identifier
\* and whose arguments, if any, are Literals without flags.
ModifierGiven ==
  /\ HasTag(raw, TagKey(fmt)) /\ raw[TagKey(fmt)] = "ModifierInvocation"
  /\ {"id", "src"} \subseteq DOMAIN raw
  /\ IF fmt = "compact"
     THEN /\ {"modifierName", "arguments"} \subseteq DOMAIN raw
          /\ HasTag(raw.modifierName, "nodeType")
          /\ raw.modifierName.nodeType = "Identifier"
          /\ IsNone(raw.arguments) \/ IsList(raw.arguments)
          /\ IsList(raw.arguments) =>
               \A i \in DOMAIN raw.arguments.items :
                 /\ HasTag(raw.arguments.items[i], "nodeType")
                 /\ raw.arguments.items[i].nodeType = "Literal"
     ELSE /\ "children" \in DOMAIN raw /\ IsList(raw.children)
          /\ Len(raw.children.items) >= 1
          /\ \A i \in DOMAIN raw.children.items :
               /\ HasTag(raw.children.items[i], "name")
               /\ raw.children.items[i].name = IF i = 1 THEN "Identifier" ELSE "Literal"

\* The raw arguments of the invocation.
RawArguments ==
  IF fmt = "legacy" THEN Tail(raw.children.items)
  ELSE IF IsList(raw.arguments) THEN raw.arguments.items ELSE <<>>

\* The same invocation written in the other format; one without arguments is
\* written with null arguments in the compact format.
ModifierTwin ==
  IF fmt = "compact"
  THEN LModifierInvocation(raw.id,
         [i \in DOMAIN RawArguments |->
            LLiteralOf(RawArguments[i].id, RawArguments[i].kind, RawArguments[i].value,
                       RawArguments[i].hexValue, RawArguments[i].subdenomination,
                       RawArguments[i].typeDescriptions.typeString)])
  ELSE CModifierInvocation(raw.id,
         IF RawArguments = <<>> THEN None
         ELSE PyList([i \in DOMAIN RawArguments |->
                CLiteralOf(RawArguments[i].id, RawArguments[i].attributes.token,
                           RawArguments[i].attributes.value,
                           RawArguments[i].attributes.hexvalue,
                           RawArguments[i].attributes.subdenomination,
                           RawArguments[i].attributes.type)]))

\* Two arguments values a consumer cannot tell apart: both null, or lists of
\* equal nodes.
SameArguments(a, b) ==
  IF IsNone(a) \/ IsNone(b) THEN IsNone(a) /\ IsNone(b)
  ELSE /\ Len(a.items) = Len(b.items)
       /\ \A i \in DOMAIN a.items : SameFields(a.items[i], b.items[i])

\* The invocation has arguments: its node holds the list of their parses, in
\* order.
ArgumentsParsed ==
  RawArguments # <<>> =>
    /\ IsList(out.val.args)
    /\ Len(out.val.args.items) = Len(RawArguments)
    /\ \A i \in DOMAIN RawArguments :
         out.val.args.items[i] = ParseOf(fmt, RawArguments[i]).val

\* C25: a ModifierInvocation has the same arguments value whichever format it
\* was written in: the same value when it has no arguments, the list of its
\* k parsed Expressions in order when it has k >= 1.
C25_ModifierArgumentsParity ==
  pc = "done" /\ ModifierGiven =>
    /\ out.ok
    /\ ParseOf(OtherFormat, ModifierTwin).ok
    /\ ArgumentsParsed
    /\ SameArguments(out.val.args, ParseOf(OtherFormat, ModifierTwin).val.args)

====
